---- MODULE Spec2Model ----
(***************************************************************************)
(* State-machine model of the fluxway-core window-manager engine           *)
(* (crates/fluxway-core): State, Workspace, LayoutTree and the Core        *)
(* orchestrator (handle_event / exec / tick).                              *)
(*                                                                         *)
(* Conventions                                                             *)
(*   - Option<Id>::None is 0 (window, workspace and container ids start    *)
(*     at 1).                                                              *)
(*   - A bitflags value is the set of the names of its set bits.           *)
(*   - A u32 is kept as the i32 with the same bit pattern, so `as u32` and *)
(*     `as i32` are the identity and a wrapped value such as (-4) as u32   *)
(*     stays representable; unsigned comparisons go through ULt.           *)
(*   - A HashMap is a function whose DOMAIN is its key set.                *)
(***************************************************************************)
EXTENDS Integers, Sequences, FiniteSets, TLC

\* ------------------------------------------------------------------ bounds
MaxWid == 3
MaxWsNum == 2
MaxSteps == 7
MaxChildren == 21
MaxResizes == 2
MaxGrabSteps == 5
MaxTargetSteps == 4

\* -------------------------------------------------------- program constants
NumWorkspaces == 10
GapInner == 4
GapOuter == 4
ContainerDefaultGap == 4
HistoryCap == 100
TabHeight == 24
BtnLeft == 272
BtnRight == 273
BtnMiddle == 274
MinGrabSize == 100

None == 0

MarkNames == {"a"}
Toggles == {"Enable", "Disable", "Switch"}
OutputGeometries == {[x |-> 0, y |-> 0, width |-> 1920, height |-> 1080]}
InitialGeometries == {[x |-> 0, y |-> 0, width |-> 800, height |-> 600]}

\* ----------------------------------------------------- collection helpers
Retain(s, x) == SelectSeq(s, LAMBDA e : e # x)

Contains(s, x) == \E i \in 1..Len(s) : s[i] = x

Position(s, x) == IF Contains(s, x) THEN CHOOSE i \in 1..Len(s) : s[i] = x /\ \A j \in 1..(i - 1) : s[j] # x ELSE 0

RemoveAt(s, i) == SubSeq(s, 1, i - 1) \o SubSeq(s, i + 1, Len(s))

InsertAt(s, i, x) == SubSeq(s, 1, i - 1) \o <<x>> \o SubSeq(s, i, Len(s))

LastOrNone(s) == IF Len(s) = 0 THEN None ELSE s[Len(s)]

Put(f, k, v) == [z \in (DOMAIN f) \cup {k} |-> IF z = k THEN v ELSE f[z]]

Del(f, k) == [z \in (DOMAIN f) \ {k} |-> f[z]]

Merge(f, g) == [z \in (DOMAIN f) \cup (DOMAIN g) |-> IF z \in DOMAIN g THEN g[z] ELSE f[z]]

EmptyMap == [z \in {} |-> 0]

Range(s) == {s[i] : i \in 1..Len(s)}

\* ----------------------------------------------------------- u32 helpers
\* a < b on the unsigned values of two bit patterns
ULt(a, b) == IF (a < 0) = (b < 0) THEN a < b ELSE b < 0

\* u32::saturating_sub
SaturatingSub(a, b) == IF ULt(a, b) THEN 0 ELSE a - b

\* (v as f64 * ratio) as u32 for a ratio kept as <<numerator, denominator>>
MulRatio(v, ratio) == (v * ratio[1]) \div ratio[2]

Max(a, b) == IF a >= b THEN a ELSE b

\* ----------------------------------------------------------- f64 ratios
\* A ratio or delta is the exact fraction <<numerator, denominator>> in
\* lowest terms with a positive denominator.
Abs(a) == IF a < 0 THEN -a ELSE a

RECURSIVE Gcd(_, _)
Gcd(a, b) == IF b = 0 THEN a ELSE Gcd(b, a % b)

Frac(n, d) == LET g == Gcd(Abs(n), d) IN <<n \div g, d \div g>>

FAdd(a, b) == Frac(a[1] * b[2] + b[1] * a[2], a[2] * b[2])

FNeg(a) == <<-a[1], a[2]>>

FSub(a, b) == FAdd(a, FNeg(b))

FLt(a, b) == a[1] * b[2] < b[1] * a[2]

FLe(a, b) == a[1] * b[2] <= b[1] * a[2]

\* f64::min
FMin(a, b) == IF FLt(b, a) THEN b ELSE a

\* min_ratio = 0.05
MinRatio == <<1, 20>>

One == <<1, 1>>

Min(a, b) == IF a <= b THEN a ELSE b

\* ------------------------------------------------------------- state.rs
Geometry_new(x, y, width, height) == [x |-> x, y |-> y, width |-> width, height |-> height]

Geometry_default == Geometry_new(0, 0, 0, 0)

\* ------------------------------------------------------------ layout.rs
WindowNode(id) == [kind |-> "Window", id |-> id]

ContainerNode(id) == [kind |-> "Container", id |-> id]

\* The ids handed out by NEXT_CONTAINER_ID are opaque and never compared
\* across trees: a tree takes the smallest id it does not hold.
next_container_id(containers) == CHOOSE c \in 1..(Cardinality(DOMAIN containers) + 1) : c \notin DOMAIN containers

recalculate_ratios(n) == [i \in 1..n |-> <<1, n>>]

Container_new(id, layout, split_direction) ==
    [id |-> id, parent |-> None, children |-> <<>>, layout |-> layout,
     split_direction |-> split_direction, ratios |-> <<>>, focused_child |-> 0,
     gap |-> ContainerDefaultGap]

Container_add_child(c, node) ==
    LET ch == Append(c.children, node)
    IN [c EXCEPT !.children = ch, !.ratios = recalculate_ratios(Len(ch))]

\* index is 0-based as in the source
Container_insert_child(c, index, node) ==
    LET i == Min(index, Len(c.children))
        ch == InsertAt(c.children, i + 1, node)
    IN [c EXCEPT !.children = ch, !.ratios = recalculate_ratios(Len(ch))]

\* mutant: the ratio of the removed child is dropped, the others are kept
Container_remove_child_keeps_ratios(c, index) ==
    IF index < Len(c.children)
    THEN LET ch == RemoveAt(c.children, index + 1)
         IN [c EXCEPT !.children = ch,
                      !.ratios = RemoveAt(c.ratios, index + 1),
                      !.focused_child = IF c.focused_child >= Len(ch) /\ Len(ch) > 0
                                        THEN Len(ch) - 1 ELSE c.focused_child]
    ELSE c

Container_remove_child(c, index) ==
    IF index < Len(c.children)
    THEN LET ch == RemoveAt(c.children, index + 1)
         IN [c EXCEPT !.children = ch,
                      !.ratios = recalculate_ratios(Len(ch)),
                      !.focused_child = IF c.focused_child >= Len(ch) /\ Len(ch) > 0
                                        THEN Len(ch) - 1 ELSE c.focused_child]
    ELSE c

Container_remove_node(c, node) ==
    LET pos == Position(c.children, node)
    IN IF pos > 0 THEN Container_remove_child(c, pos - 1) ELSE c

Container_has_node(c, node) == Contains(c.children, node)

\* Container::resize_child (index is 0-based).  f64::clamp panics when
\* min > max; `panicked` records that outcome, the container is then left as
\* it was when the call unwound.
Container_resize_child(c, index, delta) ==
    IF Len(c.children) < 2 \/ index >= Len(c.children) - 1
    THEN [container |-> c, panicked |-> FALSE]
    ELSE LET max_delta == FMin(FSub(c.ratios[index + 2], MinRatio),
                               FSub(FSub(One, MinRatio), c.ratios[index + 1]))
             min_delta == FNeg(FSub(c.ratios[index + 1], MinRatio))
             clamped_delta == IF FLt(delta, min_delta) THEN min_delta
                              ELSE IF FLt(max_delta, delta) THEN max_delta ELSE delta
         IN IF FLt(max_delta, min_delta)
            THEN [container |-> c, panicked |-> TRUE]
            ELSE [container |-> [c EXCEPT !.ratios[index + 1] = FAdd(@, clamped_delta),
                                          !.ratios[index + 2] = FSub(@, clamped_delta)],
                  panicked |-> FALSE]

LayoutTree_new ==
    [containers |-> EmptyMap, root |-> None, focused_container |-> None,
     default_direction |-> "Horizontal", window_geometries |-> EmptyMap]

LayoutTree_add_window(t, window_id) ==
    LET node == WindowNode(window_id)
    IN IF t.root = None
       THEN LET root_id == next_container_id(t.containers)
                root == Container_add_child(
                            [Container_new(root_id, "Split", t.default_direction) EXCEPT !.gap = GapInner],
                            node)
            IN [t EXCEPT !.containers = Put(t.containers, root_id, root),
                         !.root = root_id,
                         !.focused_container = root_id]
       ELSE LET target_id == IF t.focused_container # None THEN t.focused_container ELSE t.root
            IN IF target_id \in DOMAIN t.containers
               THEN LET c == t.containers[target_id]
                        insert_pos == c.focused_child + 1
                        c2 == [Container_insert_child(c, insert_pos, node) EXCEPT !.focused_child = insert_pos]
                    IN [t EXCEPT !.containers = Put(t.containers, target_id, c2)]
               ELSE t

LayoutTree_remove_empty_container(t, container_id) ==
    IF container_id \notin DOMAIN t.containers THEN t
    ELSE LET container == t.containers[container_id]
             rest == Del(t.containers, container_id)
         IN IF t.root = container_id
            THEN [t EXCEPT !.containers = rest, !.root = None, !.focused_container = None]
            ELSE IF container.parent # None /\ container.parent \in DOMAIN rest
                 THEN [t EXCEPT !.containers =
                          Put(rest, container.parent,
                              Container_remove_node(rest[container.parent], ContainerNode(container_id)))]
                 ELSE [t EXCEPT !.containers = rest]

LayoutTree_remove_window(t, window_id) ==
    LET node == WindowNode(window_id)
        holders == {cid \in DOMAIN t.containers : Container_has_node(t.containers[cid], node)}
        t1 == IF holders = {} THEN t
              ELSE LET cid == CHOOSE c \in holders : TRUE
                       c2 == Container_remove_node(t.containers[cid], node)
                       t0 == [t EXCEPT !.containers = Put(t.containers, cid, c2)]
                   IN IF Len(c2.children) = 0
                      THEN LayoutTree_remove_empty_container(t0, cid)
                      ELSE t0
    IN [t1 EXCEPT !.window_geometries = Del(t1.window_geometries, window_id)]

Container_focus_next(c) ==
    IF Len(c.children) # 0
    THEN [c EXCEPT !.focused_child = (c.focused_child + 1) % Len(c.children)]
    ELSE c

\* mutant: focus_prev stops at the first child
Container_focus_prev_stops(c) ==
    IF Len(c.children) # 0
    THEN [c EXCEPT !.focused_child = IF c.focused_child = 0 THEN 0 ELSE c.focused_child - 1]
    ELSE c

Container_focus_prev(c) ==
    IF Len(c.children) # 0
    THEN [c EXCEPT !.focused_child = IF c.focused_child = 0 THEN Len(c.children) - 1
                                     ELSE c.focused_child - 1]
    ELSE c

\* Container::focused: children.get(focused_child), None when out of range
Container_focused(c) ==
    IF c.focused_child < Len(c.children) THEN <<c.children[c.focused_child + 1]>> ELSE <<>>

RECURSIVE first_window_in_container(_, _)
first_window_in_container(t, container_id) ==
    IF container_id \notin DOMAIN t.containers THEN None
    ELSE LET children == t.containers[container_id].children
         IN IF Len(children) = 0 THEN None
            ELSE IF children[1].kind = "Window" THEN children[1].id
            ELSE first_window_in_container(t, children[1].id)

Direction_opposite(direction) ==
    CASE direction = "Left" -> "Right"
      [] direction = "Right" -> "Left"
      [] direction = "Up" -> "Down"
      [] OTHER -> "Up"

\* LayoutTree::focus_direction: the tree it leaves and the window it returns
LayoutTree_focus_direction(t, direction) ==
    LET container_id == t.focused_container
    IN IF container_id = None \/ container_id \notin DOMAIN t.containers
       THEN [tree |-> t, window |-> None]
       ELSE LET c == IF direction \in {"Left", "Up"}
                     THEN Container_focus_prev(t.containers[container_id])
                     ELSE Container_focus_next(t.containers[container_id])
                t1 == [t EXCEPT !.containers[container_id] = c]
                focused == Container_focused(c)
            IN [tree |-> t1,
                window |-> IF Len(focused) = 0 THEN None
                           ELSE IF focused[1].kind = "Window" THEN focused[1].id
                           ELSE first_window_in_container(t1, focused[1].id)]

RECURSIVE layout_container(_, _, _)
RECURSIVE layout_split_from(_, _, _, _, _)

layout_child(containers, child, geometry) ==
    IF child.kind = "Container"
    THEN layout_container(containers, child.id, geometry)
    ELSE Put(EmptyMap, child.id, geometry)

\* the loop of layout_split from child i (1-based) on, `pos` being the running x (or y)
layout_split_from(containers, container, geometry, i, pos) ==
    LET n == Len(container.children)
        gap == container.gap
        total_gap == gap * (n - 1)
        horizontal == container.split_direction = "Horizontal"
        extent == IF horizontal THEN geometry.width ELSE geometry.height
        origin == IF horizontal THEN geometry.x ELSE geometry.y
        available == SaturatingSub(extent, total_gap)
        size == IF i = n THEN origin + extent - pos
                ELSE MulRatio(available, container.ratios[i])
        child_geo == IF horizontal
                     THEN Geometry_new(pos, geometry.y, size, geometry.height)
                     ELSE Geometry_new(geometry.x, pos, geometry.width, size)
    IN IF i > n THEN EmptyMap
       ELSE Merge(layout_child(containers, container.children[i], child_geo),
                  layout_split_from(containers, container, geometry, i + 1, pos + size + gap))

layout_split(containers, container, geometry) ==
    layout_split_from(containers, container, geometry, 1,
                      IF container.split_direction = "Horizontal" THEN geometry.x ELSE geometry.y)

layout_tabbed(containers, container, geometry) ==
    LET header_height == IF container.layout = "Tabbed" THEN TabHeight
                         ELSE TabHeight * Len(container.children)
        content_geo == Geometry_new(geometry.x, geometry.y + header_height, geometry.width,
                                    SaturatingSub(geometry.height, header_height))
    IN IF container.focused_child < Len(container.children)
       THEN layout_child(containers, container.children[container.focused_child + 1], content_geo)
       ELSE EmptyMap

layout_container(containers, container_id, geometry) ==
    IF container_id \notin DOMAIN containers THEN EmptyMap
    ELSE LET container == containers[container_id]
         IN IF Len(container.children) = 0 THEN EmptyMap
            ELSE IF container.layout = "Split"
                 THEN layout_split(containers, container, geometry)
                 ELSE layout_tabbed(containers, container, geometry)

\* mutant: the cache is patched, entries already present are kept
LayoutTree_calculate_layout_patches(t, available, outer_gap) ==
    IF t.root = None
    THEN t
    ELSE LET inner == Geometry_new(available.x + outer_gap, available.y + outer_gap,
                                   SaturatingSub(available.width, outer_gap * 2),
                                   SaturatingSub(available.height, outer_gap * 2))
         IN [t EXCEPT !.window_geometries =
                Merge(layout_container(t.containers, t.root, inner), t.window_geometries)]

LayoutTree_calculate_layout(t, available, outer_gap) ==
    IF t.root = None
    THEN [t EXCEPT !.window_geometries = EmptyMap]
    ELSE LET inner == Geometry_new(available.x + outer_gap, available.y + outer_gap,
                                   SaturatingSub(available.width, outer_gap * 2),
                                   SaturatingSub(available.height, outer_gap * 2))
         IN [t EXCEPT !.window_geometries = layout_container(t.containers, t.root, inner)]

\* ------------------------------------------------------------ window.rs
\* Window::new: empty state flags, default geometry, no workspace.  The
\* window type is Normal and there is no parent, so should_float() is false.
Window_new(id) == [id |-> id, geometry |-> Geometry_default, state |-> {}, workspace |-> None]

Window_should_float(window) == "MODAL" \in window.state

Window_toggle_floating(window) ==
    IF "FLOATING" \in window.state
    THEN [window EXCEPT !.state = @ \ {"FLOATING"}]
    ELSE [window EXCEPT !.state = @ \cup {"FLOATING"}]

\* --------------------------------------------------------- workspace.rs
Workspace_new(id) ==
    [id |-> id, layout |-> LayoutTree_new, tiled_windows |-> <<>>, floating_windows |-> <<>>,
     fullscreen_window |-> None, focus_stack |-> <<>>,
     geometry |-> Geometry_default, work_area |-> Geometry_default]

Workspace_add_window(ws, window_id) ==
    [ws EXCEPT !.tiled_windows = Append(@, window_id),
               !.layout = LayoutTree_add_window(@, window_id),
               !.focus_stack = Append(@, window_id)]

\* mutant: the focus stack keeps the removed id
Workspace_remove_window_keeps_focus_stack(ws, window_id) ==
    [ws EXCEPT !.tiled_windows = Retain(@, window_id),
               !.layout = LayoutTree_remove_window(@, window_id),
               !.floating_windows = Retain(@, window_id),
               !.fullscreen_window = IF @ = window_id THEN None ELSE @]

Workspace_remove_window(ws, window_id) ==
    [ws EXCEPT !.tiled_windows = Retain(@, window_id),
               !.layout = LayoutTree_remove_window(@, window_id),
               !.floating_windows = Retain(@, window_id),
               !.focus_stack = Retain(@, window_id),
               !.fullscreen_window = IF @ = window_id THEN None ELSE @]

\* mutant: the floated window stays in the tiled list
Workspace_float_window_keeps_tiled(ws, window_id) ==
    IF Contains(ws.tiled_windows, window_id)
    THEN [ws EXCEPT !.layout = LayoutTree_remove_window(@, window_id),
                    !.floating_windows = Append(@, window_id)]
    ELSE ws

Workspace_float_window(ws, window_id) ==
    LET pos == Position(ws.tiled_windows, window_id)
    IN IF pos > 0
       THEN [ws EXCEPT !.tiled_windows = RemoveAt(@, pos),
                       !.layout = LayoutTree_remove_window(@, window_id),
                       !.floating_windows = Append(@, window_id)]
       ELSE ws

\* mutant: the re-tiled window is not put back into the layout tree
Workspace_tile_window_skips_tree(ws, window_id) ==
    LET pos == Position(ws.floating_windows, window_id)
    IN IF pos > 0
       THEN [ws EXCEPT !.floating_windows = RemoveAt(@, pos),
                       !.tiled_windows = Append(@, window_id)]
       ELSE ws

Workspace_tile_window(ws, window_id) ==
    LET pos == Position(ws.floating_windows, window_id)
    IN IF pos > 0
       THEN [ws EXCEPT !.floating_windows = RemoveAt(@, pos),
                       !.tiled_windows = Append(@, window_id),
                       !.layout = LayoutTree_add_window(@, window_id)]
       ELSE ws

Workspace_contains(ws, window_id) ==
    Contains(ws.tiled_windows, window_id) \/ Contains(ws.floating_windows, window_id)

Workspace_calculate_layout(ws, outer_gap) ==
    [ws EXCEPT !.layout = LayoutTree_calculate_layout(@, ws.work_area, outer_gap)]

Workspace_set_geometry(ws, geometry) == [ws EXCEPT !.geometry = geometry, !.work_area = geometry]

\* ------------------------------------------------------------- state.rs
FocusState_default ==
    [focused_window |-> None, previous_window |-> None, focused_workspace |-> None,
     focus_history |-> <<>>]

\* mutant: the previous window is not pushed onto the history
FocusState_set_focused_no_history(f, window_id) ==
    IF f.focused_window # window_id
    THEN [f EXCEPT !.previous_window = f.focused_window, !.focused_window = window_id]
    ELSE f

\* mutant: the previous window is pushed without being removed first
FocusState_set_focused_no_retain(f, window_id) ==
    IF f.focused_window # window_id
    THEN LET prev == f.focused_window
             pushed == Append(f.focus_history, prev)
             hist == IF prev = None THEN f.focus_history
                     ELSE IF Len(pushed) > HistoryCap THEN Tail(pushed) ELSE pushed
         IN [f EXCEPT !.previous_window = prev, !.focus_history = hist, !.focused_window = window_id]
    ELSE f

FocusState_set_focused(f, window_id) ==
    IF f.focused_window # window_id
    THEN LET prev == f.focused_window
             pushed == Append(Retain(f.focus_history, prev), prev)
             hist == IF prev = None THEN f.focus_history
                     ELSE IF Len(pushed) > HistoryCap THEN Tail(pushed) ELSE pushed
         IN [f EXCEPT !.previous_window = prev, !.focus_history = hist, !.focused_window = window_id]
    ELSE f

FocusState_clear_focused(f) ==
    [f EXCEPT !.previous_window = f.focused_window, !.focused_window = None]

NoGrab ==
    [window_id |-> None, initial_geometry |-> Geometry_default, initial_pointer |-> <<0, 0>>,
     operation |-> "Move", edges |-> {}]

WorkspaceIds == 1..NumWorkspaces

State_new ==
    [windows |-> EmptyMap,
     workspaces |-> [i \in WorkspaceIds |-> Workspace_new(i)],
     outputs |-> EmptyMap,
     focus |-> FocusState_default,
     scratchpad |-> <<>>,
     marks |-> EmptyMap,
     layout_dirty |-> FALSE,
     pointer_position |-> <<0, 0>>,
     grabbed_window |-> NoGrab]

first_workspace(st) == CHOOSE w \in DOMAIN st.workspaces : \A v \in DOMAIN st.workspaces : w <= v

\* mutant: a new window always goes to the first workspace
add_window_target_first(st) == first_workspace(st)

\* the workspace a newly added window is put on
add_window_target(st) ==
    IF st.focus.focused_workspace # None THEN st.focus.focused_workspace ELSE first_workspace(st)

State_add_window(st, window) ==
    LET workspace_id == add_window_target(st)
        w2 == [window EXCEPT !.workspace = workspace_id]
        wss == IF workspace_id \in DOMAIN st.workspaces
               THEN [st.workspaces EXCEPT ![workspace_id] = Workspace_add_window(@, window.id)]
               ELSE st.workspaces
    IN [st EXCEPT !.workspaces = wss,
                  !.windows = Put(st.windows, window.id, w2),
                  !.layout_dirty = TRUE]

\* mutant: focus is restored from the oldest history entry
restore_focus_oldest(f, windows) ==
    LET alive == SelectSeq(f.focus_history, LAMBDA w : w \in DOMAIN windows)
    IN IF Len(alive) = 0 THEN [f EXCEPT !.focus_history = <<>>]
       ELSE [f EXCEPT !.focused_window = alive[1], !.focus_history = Tail(alive)]

\* mutant: focus is not restored from the history
restore_focus_gives_up(f, windows) == f

\* the `while let Some(next) = focus_history.pop()` loop of remove_window
RECURSIVE restore_focus(_, _)
restore_focus(f, windows) ==
    IF Len(f.focus_history) = 0 THEN f
    ELSE LET next == f.focus_history[Len(f.focus_history)]
             popped == [f EXCEPT !.focus_history = SubSeq(@, 1, Len(@) - 1)]
         IN IF next \in DOMAIN windows
            THEN [popped EXCEPT !.focused_window = next]
            ELSE restore_focus(popped, windows)

\* mutant: the marks of a removed window are kept
purge_marks_keeps_all(marks, window_id) == marks

\* marks.retain(|_, &mut id| id != window_id)
purge_marks(marks, window_id) ==
    [m \in {k \in DOMAIN marks : marks[k] # window_id} |-> marks[m]]

State_remove_window(st, window_id) ==
    IF window_id \notin DOMAIN st.windows THEN st
    ELSE LET window == st.windows[window_id]
             windows == Del(st.windows, window_id)
             wss == IF window.workspace # None /\ window.workspace \in DOMAIN st.workspaces
                    THEN [st.workspaces EXCEPT ![window.workspace] = Workspace_remove_window(@, window_id)]
                    ELSE st.workspaces
             f1 == IF st.focus.focused_window = window_id
                   THEN restore_focus(FocusState_clear_focused(st.focus), windows)
                   ELSE st.focus
             f2 == [f1 EXCEPT !.focus_history = Retain(@, window_id)]
         IN [st EXCEPT !.windows = windows,
                       !.workspaces = wss,
                       !.focus = f2,
                       !.scratchpad = Retain(@, window_id),
                       !.marks = purge_marks(@, window_id),
                       !.layout_dirty = TRUE]

State_focus_window(st, window_id) ==
    IF window_id \notin DOMAIN st.windows THEN st
    ELSE LET current == st.focus.focused_window
             w1 == IF current # None /\ current \in DOMAIN st.windows
                   THEN [st.windows EXCEPT ![current].state = @ \ {"FOCUSED"}]
                   ELSE st.windows
             f1 == FocusState_set_focused(st.focus, window_id)
             w2 == [w1 EXCEPT ![window_id].state = @ \cup {"FOCUSED"}]
             ws_id == w2[window_id].workspace
             f2 == IF ws_id # None THEN [f1 EXCEPT !.focused_workspace = ws_id] ELSE f1
         IN [st EXCEPT !.windows = w2, !.focus = f2]

\* mutant: the target's top window is focused but an empty target is not made the focused workspace
State_switch_workspace_only_refocuses(st, workspace_id) ==
    IF workspace_id \notin DOMAIN st.workspaces THEN st
    ELSE LET top == LastOrNone(st.workspaces[workspace_id].focus_stack)
             st2 == IF top # None THEN State_focus_window(st, top) ELSE st
         IN [st2 EXCEPT !.layout_dirty = TRUE]

State_switch_workspace(st, workspace_id) ==
    IF workspace_id \notin DOMAIN st.workspaces THEN st
    ELSE LET st1 == [st EXCEPT !.focus.focused_workspace = workspace_id]
             top == LastOrNone(st1.workspaces[workspace_id].focus_stack)
             st2 == IF top # None THEN State_focus_window(st1, top) ELSE st1
         IN [st2 EXCEPT !.layout_dirty = TRUE]

\* mutant: the window is attached to the destination but not detached from the source
State_move_window_to_workspace_keeps_source(st, window_id, target_workspace) ==
    IF window_id \notin DOMAIN st.windows THEN st
    ELSE LET windows == [st.windows EXCEPT ![window_id].workspace = target_workspace]
             wss2 == IF target_workspace \in DOMAIN st.workspaces
                     THEN [st.workspaces EXCEPT ![target_workspace] = Workspace_add_window(@, window_id)]
                     ELSE st.workspaces
         IN [st EXCEPT !.windows = windows, !.workspaces = wss2, !.layout_dirty = TRUE]

State_move_window_to_workspace(st, window_id, target_workspace) ==
    IF window_id \notin DOMAIN st.windows THEN st
    ELSE LET old_workspace == st.windows[window_id].workspace
             windows == [st.windows EXCEPT ![window_id].workspace = target_workspace]
             wss1 == IF old_workspace # None /\ old_workspace \in DOMAIN st.workspaces
                     THEN [st.workspaces EXCEPT ![old_workspace] = Workspace_remove_window(@, window_id)]
                     ELSE st.workspaces
             wss2 == IF target_workspace \in DOMAIN wss1
                     THEN [wss1 EXCEPT ![target_workspace] = Workspace_add_window(@, window_id)]
                     ELSE wss1
         IN [st EXCEPT !.windows = windows, !.workspaces = wss2, !.layout_dirty = TRUE]

set_window_flag(windows, window_id, flag, on) ==
    IF window_id \in DOMAIN windows
    THEN [windows EXCEPT ![window_id].state = IF on THEN @ \cup {flag} ELSE @ \ {flag}]
    ELSE windows

State_toggle_scratchpad(st, window_id) ==
    LET pos == Position(st.scratchpad, window_id)
    IN IF pos > 0
       THEN [st EXCEPT !.scratchpad = RemoveAt(@, pos),
                       !.windows = set_window_flag(@, window_id, "HIDDEN", FALSE),
                       !.layout_dirty = TRUE]
       ELSE [st EXCEPT !.scratchpad = Append(@, window_id),
                       !.windows = set_window_flag(@, window_id, "HIDDEN", TRUE),
                       !.layout_dirty = TRUE]

State_set_mark(st, mark, window_id) == [st EXCEPT !.marks = Put(@, mark, window_id)]

State_goto_mark(st, mark) ==
    IF mark \notin DOMAIN st.marks THEN st
    ELSE LET window_id == st.marks[mark]
             st1 == State_focus_window(st, window_id)
         IN IF window_id \in DOMAIN st1.windows
               /\ st1.windows[window_id].workspace # None
               /\ st1.focus.focused_workspace # st1.windows[window_id].workspace
            THEN State_switch_workspace(st1, st1.windows[window_id].workspace)
            ELSE st1

\* -------------------------------------------------------- invariants.rs
validate(st) ==
    IF st.focus.focused_window # None /\ st.focus.focused_window \notin DOMAIN st.windows
    THEN "FocusedWindowMissing"
    ELSE IF st.focus.focused_workspace # None /\ st.focus.focused_workspace \notin DOMAIN st.workspaces
    THEN "FocusedWorkspaceOutOfRange"
    ELSE IF \E wid \in DOMAIN st.windows :
                LET window == st.windows[wid]
                    in_scratchpad == Contains(st.scratchpad, wid)
                    in_workspace == /\ window.workspace # None
                                    /\ window.workspace \in DOMAIN st.workspaces
                                    /\ Workspace_contains(st.workspaces[window.workspace], wid)
                IN in_scratchpad /\ in_workspace /\ "HIDDEN" \notin window.state
    THEN "WindowInBothWorkspaceAndScratchpad"
    ELSE IF \E m \in DOMAIN st.marks : st.marks[m] \notin DOMAIN st.windows
    THEN "MarkPointsToMissing"
    ELSE "Ok"

\* --------------------------------------------------------------- event.rs
SetWindowGeometry(id, geo) ==
    [type |-> "SetWindowGeometry", id |-> id, x |-> geo.x, y |-> geo.y, w |-> geo.width, h |-> geo.height]

SetFocus(id) == [type |-> "SetFocus", id |-> id]

SetFloating(id, floating) == [type |-> "SetFloating", id |-> id, floating |-> floating]

WorkspaceChanged(active) == [type |-> "WorkspaceChanged", active |-> active]

\* ----------------------------------------------------------------- lib.rs
\* input::WorkspaceTarget
Number(n) == [kind |-> "Number", num |-> n]

TargetNext == [kind |-> "Next", num |-> 0]

TargetPrev == [kind |-> "Prev", num |-> 0]

BackAndForth == [kind |-> "BackAndForth", num |-> 0]

\* keys().nth(k) over the ordered workspace map (k is 0-based)
workspace_key_nth(st, k) == IF k + 1 \in DOMAIN st.workspaces THEN k + 1 ELSE None

\* mutant: Prev from the first workspace stays on it
resolve_workspace_target_prev_saturates(st, target) ==
    LET len == Cardinality(DOMAIN st.workspaces)
        current == st.focus.focused_workspace
        idx == IF current \in DOMAIN st.workspaces THEN current - 1 ELSE 0
    IN CASE target.kind = "Next" ->
               IF current # None THEN workspace_key_nth(st, (idx + 1) % len)
               ELSE workspace_key_nth(st, 0)
         [] target.kind = "Prev" ->
               IF current # None
               THEN workspace_key_nth(st, SaturatingSub(idx, 1))
               ELSE workspace_key_nth(st, len - 1)
         [] target.kind = "Number" -> workspace_key_nth(st, SaturatingSub(target.num, 1))
         [] OTHER -> None

resolve_workspace_target(st, target) ==
    LET len == Cardinality(DOMAIN st.workspaces)
        current == st.focus.focused_workspace
        idx == IF current \in DOMAIN st.workspaces THEN current - 1 ELSE 0
    IN CASE target.kind = "Next" ->
               IF current # None THEN workspace_key_nth(st, (idx + 1) % len)
               ELSE workspace_key_nth(st, 0)
         [] target.kind = "Prev" ->
               IF current # None
               THEN workspace_key_nth(st, IF idx = 0 THEN SaturatingSub(len, 1) ELSE idx - 1)
               ELSE workspace_key_nth(st, len - 1)
         [] target.kind = "Number" -> workspace_key_nth(st, SaturatingSub(target.num, 1))
         [] OTHER -> None

\* the SetWindowGeometry actions relayout_actions emits for a workspace
geometry_actions(workspace) ==
    LET geos == workspace.layout.window_geometries
        present == SelectSeq(workspace.tiled_windows, LAMBDA w : w \in DOMAIN geos)
    IN [i \in 1..Len(present) |-> SetWindowGeometry(present[i], geos[present[i]])]

Core_relayout_actions(st) ==
    LET ws_id == st.focus.focused_workspace
    IN IF ws_id = None THEN [st |-> st, actions |-> <<>>]
       ELSE IF ws_id \notin DOMAIN st.workspaces
            THEN [st |-> [st EXCEPT !.layout_dirty = FALSE], actions |-> <<>>]
            ELSE LET wss == [st.workspaces EXCEPT ![ws_id] = Workspace_calculate_layout(@, GapOuter)]
                 IN [st |-> [st EXCEPT !.workspaces = wss, !.layout_dirty = FALSE],
                     actions |-> geometry_actions(wss[ws_id])]

should_show(st, sv, window_id) ==
    \/ st.windows[window_id].workspace = st.focus.focused_workspace
    \/ Contains(sv, window_id)
    \/ "STICKY" \in st.windows[window_id].state

Core_update_window_visibility(st, sv) ==
    [st EXCEPT !.windows =
        [w \in DOMAIN st.windows |->
            [st.windows[w] EXCEPT !.state = IF should_show(st, sv, w)
                                            THEN @ \ {"HIDDEN"} ELSE @ \cup {"HIDDEN"}]]]

\* Every handler returns the new State, the new scratchpad_visible list and
\* the action list handed back to the backend.
Result(st, sv, acts) == [st |-> st, sv |-> sv, actions |-> acts]

on_window_mapped(st, sv, id, initial_geometry) ==
    LET w0 == [Window_new(id) EXCEPT !.geometry = initial_geometry]
        window == IF Window_should_float(w0) THEN [w0 EXCEPT !.state = @ \cup {"FLOATING"}] ELSE w0
        st1 == State_add_window(st, window)
        st2 == State_focus_window(st1, id)
        r == Core_relayout_actions(st2)
    IN Result(r.st, sv, <<SetFocus(id)>> \o r.actions)

on_window_unmapped(st, sv, id) ==
    IF id \in DOMAIN st.windows
    THEN LET st1 == State_remove_window(st, id)
             r == Core_relayout_actions(st1)
         IN Result(r.st, sv, <<SetFocus(st1.focus.focused_window)>> \o r.actions)
    ELSE Result(st, sv, <<>>)

on_focus_requested(st, sv, id) ==
    IF id \in DOMAIN st.windows
    THEN Result(State_focus_window(st, id), sv, <<SetFocus(id)>>)
    ELSE Result(st, sv, <<>>)

on_output_added(st, sv, id, geometry) ==
    LET st1 == [st EXCEPT !.outputs = Put(@, id, geometry),
                          !.workspaces = [w \in DOMAIN st.workspaces |->
                              IF st.workspaces[w].geometry = Geometry_default
                              THEN Workspace_set_geometry(st.workspaces[w], geometry)
                              ELSE st.workspaces[w]]]
        r == Core_relayout_actions(st1)
    IN Result(r.st, sv, r.actions)

\* mutant: the dirty flag is not looked at, every tick lays out
on_tick_always_relayouts(st, sv) ==
    LET r == Core_relayout_actions(st)
        st1 == [r.st EXCEPT !.layout_dirty = FALSE]
    IN Result(Core_update_window_visibility(st1, sv), sv, r.actions)

on_tick(st, sv) ==
    IF st.layout_dirty
    THEN LET r == Core_relayout_actions(st)
             st1 == [r.st EXCEPT !.layout_dirty = FALSE]
         IN Result(Core_update_window_visibility(st1, sv), sv, r.actions)
    ELSE Result(st, sv, <<>>)

cmd_floating(st, sv, toggle) ==
    LET wid == st.focus.focused_window
    IN IF wid = None \/ wid \notin DOMAIN st.windows THEN Result(st, sv, <<>>)
       ELSE LET window == st.windows[wid]
                was_floating == "FLOATING" \in window.state
                w2 == CASE toggle = "Enable" -> [window EXCEPT !.state = @ \cup {"FLOATING"}]
                        [] toggle = "Disable" -> [window EXCEPT !.state = @ \ {"FLOATING"}]
                        [] OTHER -> Window_toggle_floating(window)
                is_floating == "FLOATING" \in w2.state
                st1 == [st EXCEPT !.windows[wid] = w2]
            IN IF was_floating = is_floating THEN Result(st1, sv, <<>>)
               ELSE LET ws_id == w2.workspace
                        wss == IF ws_id # None /\ ws_id \in DOMAIN st1.workspaces
                               THEN [st1.workspaces EXCEPT ![ws_id] =
                                        IF is_floating THEN Workspace_float_window(@, wid)
                                        ELSE Workspace_tile_window(@, wid)]
                               ELSE st1.workspaces
                        st2 == [st1 EXCEPT !.workspaces = wss, !.layout_dirty = TRUE]
                        r == Core_relayout_actions(st2)
                    IN Result(r.st, sv, <<SetFloating(wid, is_floating)>> \o r.actions)

cmd_switch_workspace(st, sv, target) ==
    LET id == resolve_workspace_target(st, target)
    IN IF id = None THEN Result(st, sv, <<>>)
       ELSE LET st1 == State_switch_workspace(st, id)
                st2 == Core_update_window_visibility(st1, sv)
                r == Core_relayout_actions(st2)
            IN Result(r.st, sv,
                      <<WorkspaceChanged(id), SetFocus(st2.focus.focused_window)>> \o r.actions)

cmd_move_to_workspace(st, sv, target) ==
    LET wid == st.focus.focused_window
        ws_id == resolve_workspace_target(st, target)
    IN IF wid = None \/ ws_id = None THEN Result(st, sv, <<>>)
       ELSE LET st1 == State_move_window_to_workspace(st, wid, ws_id)
                st2 == Core_update_window_visibility(st1, sv)
                r == Core_relayout_actions(st2)
            IN Result(r.st, sv, r.actions)

cmd_toggle_scratchpad(st, sv) ==
    IF Len(st.scratchpad) = 0 THEN Result(st, sv, <<>>)
    ELSE LET wid == st.scratchpad[1]
         IN IF Contains(sv, wid)
            THEN LET sv1 == Retain(sv, wid)
                 IN Result(Core_update_window_visibility(st, sv1), sv1, <<>>)
            ELSE LET sv1 == Append(sv, wid)
                     st1 == State_focus_window(st, wid)
                 IN Result(Core_update_window_visibility(st1, sv1), sv1, <<SetFocus(wid)>>)

cmd_move_to_scratchpad(st, sv) ==
    LET wid == st.focus.focused_window
    IN IF wid = None THEN Result(st, sv, <<>>)
       ELSE LET r == Core_relayout_actions(State_toggle_scratchpad(st, wid))
            IN Result(r.st, sv, r.actions)

cmd_mark(st, sv, mark) ==
    IF st.focus.focused_window # None
    THEN Result(State_set_mark(st, mark, st.focus.focused_window), sv, <<>>)
    ELSE Result(st, sv, <<>>)

cmd_unmark(st, sv, mark) == Result([st EXCEPT !.marks = Del(@, mark)], sv, <<>>)

\* mutant: the change of workspace is not reported
cmd_goto_mark_silent(st, sv, mark) ==
    LET st1 == State_goto_mark(st, mark)
    IN Result(st1, sv, <<SetFocus(st1.focus.focused_window)>>)

cmd_goto_mark(st, sv, mark) ==
    LET prev_ws == st.focus.focused_workspace
        st1 == State_goto_mark(st, mark)
        changed == IF st1.focus.focused_workspace # prev_ws
                   THEN <<WorkspaceChanged(st1.focus.focused_workspace)>> ELSE <<>>
    IN Result(st1, sv, changed \o <<SetFocus(st1.focus.focused_window)>>)

\* ------------------------------------------------------ pointer and grabs
\* A pointer coordinate (f64) is kept as the integer 2*v, so that halves are
\* representable and `as i32` has something to truncate.
Px(v) == 2 * v

\* f64 `as i32`: truncation toward zero
ToI32(h) == IF h >= 0 THEN h \div 2 ELSE -((-h) \div 2)

Geometry_contains(g, x, y) ==
    /\ x >= g.x
    /\ x < g.x + g.width
    /\ y >= g.y
    /\ y < g.y + g.height

\* the windows of a stacking list that window_at accepts at (x, y)
hits(st, list, x, y) ==
    SelectSeq(list, LAMBDA w : /\ w \in DOMAIN st.windows
                               /\ "HIDDEN" \notin st.windows[w].state
                               /\ Geometry_contains(st.windows[w].geometry, ToI32(x), ToI32(y)))

State_window_at(st, x, y) ==
    LET ws_id == st.focus.focused_workspace
    IN IF ws_id = None \/ ws_id \notin DOMAIN st.workspaces THEN None
       ELSE LET floating == hits(st, st.workspaces[ws_id].floating_windows, x, y)
                tiled == hits(st, st.workspaces[ws_id].tiled_windows, x, y)
            IN IF Len(floating) > 0 THEN LastOrNone(floating) ELSE LastOrNone(tiled)

\* Window::set_geometry; SizeHints::default() holds no constraint
Window_set_geometry(window, geometry) == [window EXCEPT !.geometry = geometry]

\* mutant: a click in the center third selects the top edge
ResizeEdge_from_point_center_top(px, py, geo) ==
    LET x == px - Px(geo.x)
        y == py - Px(geo.y)
        left == 3 * x < 2 * geo.width
        right == 3 * x > 4 * geo.width
        top == 3 * y < 2 * geo.height
        bottom == 3 * y > 4 * geo.height
    IN CASE left /\ top -> "TopLeft"
         [] ~(left /\ top) /\ right /\ top -> "TopRight"
         [] ~top /\ left /\ bottom -> "BottomLeft"
         [] ~top /\ ~left /\ right /\ bottom -> "BottomRight"
         [] ~top /\ ~bottom /\ left -> "Left"
         [] ~top /\ ~bottom /\ ~left /\ right -> "Right"
         [] ~left /\ ~right /\ top -> "Top"
         [] ~left /\ ~right /\ ~top /\ bottom -> "Bottom"
         [] OTHER -> "Top"

ResizeEdge_from_point(px, py, geo) ==
    LET x == px - Px(geo.x)
        y == py - Px(geo.y)
        left == 3 * x < 2 * geo.width
        right == 3 * x > 4 * geo.width
        top == 3 * y < 2 * geo.height
        bottom == 3 * y > 4 * geo.height
    IN CASE left /\ top -> "TopLeft"
         [] ~(left /\ top) /\ right /\ top -> "TopRight"
         [] ~top /\ left /\ bottom -> "BottomLeft"
         [] ~top /\ ~left /\ right /\ bottom -> "BottomRight"
         [] ~top /\ ~bottom /\ left -> "Left"
         [] ~top /\ ~bottom /\ ~left /\ right -> "Right"
         [] ~left /\ ~right /\ top -> "Top"
         [] ~left /\ ~right /\ ~top /\ bottom -> "Bottom"
         [] OTHER -> "BottomRight"

ResizeEdge_to_edges(edge) ==
    CASE edge = "Top" -> {"TOP"}
      [] edge = "Bottom" -> {"BOTTOM"}
      [] edge = "Left" -> {"LEFT"}
      [] edge = "Right" -> {"RIGHT"}
      [] edge = "TopLeft" -> {"TOP", "LEFT"}
      [] edge = "TopRight" -> {"TOP", "RIGHT"}
      [] edge = "BottomLeft" -> {"BOTTOM", "LEFT"}
      [] OTHER -> {"BOTTOM", "RIGHT"}

GrabbedWindow(window_id, initial_geometry, initial_pointer, operation, edges) ==
    [window_id |-> window_id, initial_geometry |-> initial_geometry,
     initial_pointer |-> initial_pointer, operation |-> operation, edges |-> edges]

\* mutant: a move adds the pointer delta to the window's current position
grab_geometry_incremental(geometry, grab, x, y) ==
    LET dx == ToI32(x - grab.initial_pointer[1])
        dy == ToI32(y - grab.initial_pointer[2])
    IN IF grab.operation = "Move"
       THEN [geometry EXCEPT !.x = geometry.x + dx, !.y = geometry.y + dy]
       ELSE [geometry EXCEPT !.width = Max(geometry.width + dx, MinGrabSize),
                             !.height = Max(geometry.height + dy, MinGrabSize)]

\* mutant: a left or top edge resize clamps the size but moves the origin by the raw delta
grab_geometry_drifting_origin(geometry, grab, x, y) ==
    LET dx == ToI32(x - grab.initial_pointer[1])
        dy == ToI32(y - grab.initial_pointer[2])
        initial == grab.initial_geometry
        g1 == IF "RIGHT" \in grab.edges
              THEN [geometry EXCEPT !.width = Max(initial.width + dx, MinGrabSize)] ELSE geometry
        g2 == IF "BOTTOM" \in grab.edges
              THEN [g1 EXCEPT !.height = Max(initial.height + dy, MinGrabSize)] ELSE g1
        g3 == IF "LEFT" \in grab.edges
              THEN [g2 EXCEPT !.x = initial.x + dx, !.width = Max(initial.width - dx, MinGrabSize)]
              ELSE g2
        g4 == IF "TOP" \in grab.edges
              THEN [g3 EXCEPT !.y = initial.y + dy, !.height = Max(initial.height - dy, MinGrabSize)]
              ELSE g3
    IN IF grab.operation = "Move"
       THEN [geometry EXCEPT !.x = initial.x + dx, !.y = initial.y + dy]
       ELSE g4

\* the `match operation` of on_pointer_motion: the grabbed window's new
\* geometry for the pointer at (x, y)
grab_geometry(geometry, grab, x, y) ==
    LET dx == ToI32(x - grab.initial_pointer[1])
        dy == ToI32(y - grab.initial_pointer[2])
        initial == grab.initial_geometry
        g1 == IF "RIGHT" \in grab.edges
              THEN [geometry EXCEPT !.width = Max(initial.width + dx, MinGrabSize)] ELSE geometry
        g2 == IF "BOTTOM" \in grab.edges
              THEN [g1 EXCEPT !.height = Max(initial.height + dy, MinGrabSize)] ELSE g1
        g3 == IF "LEFT" \in grab.edges
              THEN LET new_w == Max(initial.width - dx, MinGrabSize)
                   IN [g2 EXCEPT !.x = initial.x + (initial.width - new_w), !.width = new_w]
              ELSE g2
        g4 == IF "TOP" \in grab.edges
              THEN LET new_h == Max(initial.height - dy, MinGrabSize)
                   IN [g3 EXCEPT !.y = initial.y + (initial.height - new_h), !.height = new_h]
              ELSE g3
    IN IF grab.operation = "Move"
       THEN [geometry EXCEPT !.x = initial.x + dx, !.y = initial.y + dy]
       ELSE g4

\* config.general.focus_follows_mouse is Yes by default
on_pointer_motion(st, sv, x, y) ==
    LET st1 == [st EXCEPT !.pointer_position = <<x, y>>]
        grab == st1.grabbed_window
        grabbing == grab # NoGrab /\ grab.window_id \in DOMAIN st1.windows
        st2 == IF grabbing
               THEN [st1 EXCEPT !.windows[grab.window_id].geometry = grab_geometry(@, grab, x, y)]
               ELSE st1
        acts1 == IF grabbing
                 THEN <<SetWindowGeometry(grab.window_id, st2.windows[grab.window_id].geometry)>>
                 ELSE <<>>
        under == State_window_at(st2, x, y)
    IN IF st2.grabbed_window = NoGrab /\ under # None /\ st2.focus.focused_window # under
       THEN Result(State_focus_window(st2, under), sv, acts1 \o <<SetFocus(under)>>)
       ELSE Result(st2, sv, acts1)

\* mutant: a grab starts on any press, whatever the modifiers
on_pointer_button_ignores_modifiers(st, sv, mods, button, pressed) ==
    LET px == st.pointer_position[1]
        py == st.pointer_position[2]
        window_id == State_window_at(st, px, py)
        geo == st.windows[window_id].geometry
    IN IF pressed /\ window_id # None /\ button \in {BtnLeft, BtnRight, BtnMiddle}
       THEN Result([st EXCEPT !.grabbed_window =
                       IF button = BtnLeft THEN GrabbedWindow(window_id, geo, <<px, py>>, "Move", {})
                       ELSE GrabbedWindow(window_id, geo, <<px, py>>, "Resize",
                                          ResizeEdge_to_edges(ResizeEdge_from_point(px, py, geo)))],
                   sv, <<>>)
       ELSE Result([st EXCEPT !.grabbed_window = IF pressed THEN @ ELSE NoGrab], sv, <<>>)

\* mutant: only the release of the left button ends a grab
on_pointer_button_release_left_only(st, sv, mods, button, pressed) ==
    LET px == st.pointer_position[1]
        py == st.pointer_position[2]
        window_id == State_window_at(st, px, py)
        geo == st.windows[window_id].geometry
    IN IF pressed /\ "SUPER" \in mods /\ window_id # None /\ button \in {BtnLeft, BtnRight, BtnMiddle}
       THEN Result([st EXCEPT !.grabbed_window =
                       IF button = BtnLeft THEN GrabbedWindow(window_id, geo, <<px, py>>, "Move", {})
                       ELSE GrabbedWindow(window_id, geo, <<px, py>>, "Resize",
                                          ResizeEdge_to_edges(ResizeEdge_from_point(px, py, geo)))],
                   sv, <<>>)
       ELSE Result([st EXCEPT !.grabbed_window = IF ~pressed /\ button = BtnLeft THEN NoGrab ELSE @],
                   sv, <<>>)

on_pointer_button(st, sv, mods, button, pressed) ==
    LET px == st.pointer_position[1]
        py == st.pointer_position[2]
        window_id == State_window_at(st, px, py)
        over == pressed /\ "SUPER" \in mods /\ window_id # None /\ window_id \in DOMAIN st.windows
        geo == st.windows[window_id].geometry
        st1 == IF over
               THEN [st EXCEPT !.grabbed_window =
                        IF button = BtnLeft THEN GrabbedWindow(window_id, geo, <<px, py>>, "Move", {})
                        ELSE GrabbedWindow(window_id, geo, <<px, py>>, "Resize",
                                           ResizeEdge_to_edges(ResizeEdge_from_point(px, py, geo)))]
               ELSE st
        st2 == IF ~pressed THEN [st1 EXCEPT !.grabbed_window = NoGrab] ELSE st1
    IN IF over /\ button \notin {BtnLeft, BtnRight, BtnMiddle}
       THEN Result(st, sv, <<>>)
       ELSE IF pressed /\ button = BtnLeft /\ st2.grabbed_window = NoGrab /\ window_id # None
            THEN Result(State_focus_window(st2, window_id), sv, <<SetFocus(window_id)>>)
            ELSE Result(st2, sv, <<>>)

\* mutant: a commit for an unknown window still reports a geometry
on_window_commit_reports_unknown(st, sv, id, new_geometry_hint) ==
    IF Len(new_geometry_hint) > 0
    THEN Result(st, sv, <<SetWindowGeometry(id, new_geometry_hint[1])>>)
    ELSE Result(st, sv, <<>>)

\* new_geometry_hint is an Option<Geometry>: a sequence of at most one Geometry
on_window_commit(st, sv, id, new_geometry_hint) ==
    IF /\ Len(new_geometry_hint) > 0
       /\ id \in DOMAIN st.windows
       /\ "FLOATING" \in st.windows[id].state
    THEN LET st1 == [st EXCEPT !.windows[id] = Window_set_geometry(@, new_geometry_hint[1])]
         IN Result(st1, sv, <<SetWindowGeometry(id, st1.windows[id].geometry)>>)
    ELSE Result(st, sv, <<>>)

\* Core::reload_config: the model keeps the default configuration, so only
\* the dirty flag changes; nothing is returned to the backend
Core_reload_config(st, sv) == Result([st EXCEPT !.layout_dirty = TRUE], sv, <<>>)

\* ---------------------------------------------------------- state machine
VARIABLES
    state,               \* Core::state
    scratchpad_visible,  \* Core::scratchpad_visible
    next_wid,            \* Core::next_wid
    actions,             \* the Vec<CoreAction> returned by the last call
    lastOp,              \* the last call and its arguments
    focus_order,         \* observer: existing windows by the time they last became focused, newest last
    steps,               \* number of calls made so far
    probe,               \* a Container driven directly through its own methods
    modifiers            \* Core::input_manager.modifiers

vars == <<state, scratchpad_visible, next_wid, actions, lastOp, focus_order, steps, probe, modifiers>>

Op(op, id, arg) == [op |-> op, id |-> id, arg |-> arg]

\* observer of focus changes, independent of the engine's own bookkeeping
observe_focus(order, before, after) ==
    LET f == after.focus.focused_window
        touched == IF f # None /\ f # before.focus.focused_window
                   THEN Append(Retain(order, f), f) ELSE order
    IN SelectSeq(touched, LAMBDA w : w \in DOMAIN after.windows)

Return(r, op) ==
    /\ steps < MaxSteps
    /\ steps' = steps + 1
    /\ state' = r.st
    /\ scratchpad_visible' = r.sv
    /\ actions' = r.actions
    /\ lastOp' = op
    /\ focus_order' = observe_focus(focus_order, state, r.st)
    /\ UNCHANGED <<probe, modifiers>>

\* a Split container holding the windows 1..n, built by add_child
RECURSIVE ContainerWith(_)
ContainerWith(n) ==
    IF n = 0 THEN Container_new(1, "Split", "Horizontal")
    ELSE Container_add_child(ContainerWith(n - 1), WindowNode(n))

\* a LayoutTree holding the windows 1..n, built by add_window
RECURSIVE TreeWith(_)
TreeWith(n) ==
    IF n = 0 THEN LayoutTree_new
    ELSE LayoutTree_add_window(TreeWith(n - 1), n)

Probe(c) == [container |-> c, panicked |-> FALSE, tree |-> LayoutTree_new, returned |-> None]

Init ==
    /\ probe = Probe(ContainerWith(0))
    /\ modifiers = {}
    /\ state = State_new
    /\ scratchpad_visible = <<>>
    /\ next_wid = 1
    /\ actions = <<>>
    /\ lastOp = Op("new", None, "")
    /\ focus_order = <<>>
    /\ steps = 0

\* the backend takes the id from next_window_id() and maps the window
WindowMapped ==
    /\ next_wid <= MaxWid
    /\ \E geo \in InitialGeometries :
          Return(on_window_mapped(state, scratchpad_visible, next_wid, geo),
                 Op("WindowMapped", next_wid, ""))
    /\ next_wid' = next_wid + 1

WindowUnmapped ==
    /\ \E id \in 1..MaxWid :
          Return(on_window_unmapped(state, scratchpad_visible, id), Op("WindowUnmapped", id, ""))
    /\ UNCHANGED next_wid

FocusRequested ==
    /\ \E id \in 1..MaxWid :
          Return(on_focus_requested(state, scratchpad_visible, id), Op("FocusRequested", id, ""))
    /\ UNCHANGED next_wid

OutputAdded ==
    /\ \E geo \in OutputGeometries :
          Return(on_output_added(state, scratchpad_visible, 1, geo), Op("OutputAdded", 1, ""))
    /\ UNCHANGED next_wid

Tick ==
    /\ Return(on_tick(state, scratchpad_visible), Op("Tick", None, ""))
    /\ UNCHANGED next_wid

ExecFloating ==
    /\ \E toggle \in Toggles :
          Return(cmd_floating(state, scratchpad_visible, toggle), Op("Floating", None, toggle))
    /\ UNCHANGED next_wid

ExecWorkspace ==
    /\ \E n \in 1..MaxWsNum :
          Return(cmd_switch_workspace(state, scratchpad_visible, Number(n)), Op("Workspace", n, ""))
    /\ UNCHANGED next_wid

ExecMoveToWorkspace ==
    /\ \E n \in 1..MaxWsNum :
          Return(cmd_move_to_workspace(state, scratchpad_visible, Number(n)), Op("MoveToWorkspace", n, ""))
    /\ UNCHANGED next_wid

ExecMoveToScratchpad ==
    /\ Return(cmd_move_to_scratchpad(state, scratchpad_visible), Op("MoveToScratchpad", None, ""))
    /\ UNCHANGED next_wid

ExecScratchpadShow ==
    /\ Return(cmd_toggle_scratchpad(state, scratchpad_visible), Op("ScratchpadShow", None, ""))
    /\ UNCHANGED next_wid

ExecMark ==
    /\ \E m \in MarkNames : Return(cmd_mark(state, scratchpad_visible, m), Op("Mark", None, m))
    /\ UNCHANGED next_wid

ExecUnmark ==
    /\ \E m \in MarkNames : Return(cmd_unmark(state, scratchpad_visible, m), Op("Unmark", None, m))
    /\ UNCHANGED next_wid

ExecGotoMark ==
    /\ \E m \in MarkNames : Return(cmd_goto_mark(state, scratchpad_visible, m), Op("GotoMark", None, m))
    /\ UNCHANGED next_wid

ReloadConfig ==
    /\ Return(Core_reload_config(state, scratchpad_visible), Op("ReloadConfig", None, ""))
    /\ UNCHANGED next_wid

Next ==
    \/ WindowMapped
    \/ WindowUnmapped
    \/ FocusRequested
    \/ OutputAdded
    \/ Tick
    \/ ExecFloating
    \/ ExecWorkspace
    \/ ExecMoveToWorkspace
    \/ ExecMoveToScratchpad
    \/ ExecScratchpadShow
    \/ ExecMark
    \/ ExecUnmark
    \/ ExecGotoMark
    \/ ReloadConfig

Spec == Init /\ [][Next]_vars

\* ------------------------------------------- Container driven on its own
\* resize deltas tried on the container
Deltas == {<<-1, 1>>, <<-1, 10>>, <<1, 10>>, <<1, 1>>}

\* the numbers of windows the tree starts with
TreeSizes == {1, 2}

InitContainer ==
    /\ \E n \in 1..MaxChildren : \E m \in TreeSizes :
          probe = [Probe(ContainerWith(n)) EXCEPT !.tree = TreeWith(m)]
    /\ modifiers = {}
    /\ state = State_new
    /\ scratchpad_visible = <<>>
    /\ next_wid = 1
    /\ actions = <<>>
    /\ lastOp = Op("new", None, "")
    /\ focus_order = <<>>
    /\ steps = 0

ResizeChild ==
    /\ steps < MaxResizes
    /\ ~probe.panicked
    /\ \E index \in 0..Len(probe.container.children) : \E delta \in Deltas :
          /\ LET r == Container_resize_child(probe.container, index, delta)
             IN probe' = [probe EXCEPT !.container = r.container, !.panicked = r.panicked]
          /\ lastOp' = Op("resize_child", index, delta)
    /\ steps' = steps + 1
    /\ UNCHANGED <<state, scratchpad_visible, next_wid, actions, focus_order, modifiers>>

\* a window id the container does not hold
FreshNode(c) ==
    WindowNode(CHOOSE id \in 1..(Len(c.children) + 1) : WindowNode(id) \notin Range(c.children))

ContainerStep(c, op) ==
    /\ steps < MaxResizes
    /\ probe' = [probe EXCEPT !.container = c]
    /\ lastOp' = op
    /\ steps' = steps + 1
    /\ UNCHANGED <<state, scratchpad_visible, next_wid, actions, focus_order, modifiers>>

AddChild ==
    /\ ~probe.panicked
    /\ LET node == FreshNode(probe.container)
       IN ContainerStep(Container_add_child(probe.container, node), Op("add_child", None, node))

InsertChild ==
    /\ ~probe.panicked
    /\ \E index \in 0..(Len(probe.container.children) + 1) :
          LET node == FreshNode(probe.container)
          IN ContainerStep(Container_insert_child(probe.container, index, node),
                           Op("insert_child", index, node))

RemoveChild ==
    /\ ~probe.panicked
    /\ \E index \in 0..Len(probe.container.children) :
          ContainerStep(Container_remove_child(probe.container, index), Op("remove_child", index, ""))

RemoveNode ==
    /\ ~probe.panicked
    /\ \E node \in Range(probe.container.children) \cup {FreshNode(probe.container)} :
          ContainerStep(Container_remove_node(probe.container, node), Op("remove_node", None, node))

TreeStep(t, op) ==
    /\ probe' = [probe EXCEPT !.tree = t]
    /\ lastOp' = op
    /\ steps' = steps + 1
    /\ UNCHANGED <<state, scratchpad_visible, next_wid, actions, focus_order, modifiers>>

\* the window ids held by the containers of a layout tree
TreeWindows(t) ==
    {n.id : n \in {m \in UNION {Range(t.containers[c].children) : c \in DOMAIN t.containers} : m.kind = "Window"}}

TreeAddWindow ==
    /\ steps < MaxResizes
    /\ \E id \in 1..MaxWid :
          /\ id \notin TreeWindows(probe.tree)
          /\ TreeStep(LayoutTree_add_window(probe.tree, id), Op("add_window", id, ""))

TreeRemoveWindow ==
    /\ steps < MaxResizes
    /\ \E id \in 1..MaxWid :
          TreeStep(LayoutTree_remove_window(probe.tree, id), Op("remove_window", id, ""))

Directions == {"Left", "Right", "Up", "Down"}

TreeFocusDirection ==
    /\ steps < MaxResizes
    /\ \E direction \in Directions :
          LET r == LayoutTree_focus_direction(probe.tree, direction)
          IN /\ probe' = [probe EXCEPT !.tree = r.tree, !.returned = r.window]
             /\ lastOp' = Op("focus_direction", None, direction)
    /\ steps' = steps + 1
    /\ UNCHANGED <<state, scratchpad_visible, next_wid, actions, focus_order, modifiers>>

NextContainer ==
    \/ TreeFocusDirection
    \/ ResizeChild
    \/ AddChild
    \/ InsertChild
    \/ RemoveChild
    \/ RemoveNode
    \/ TreeAddWindow
    \/ TreeRemoveWindow

SpecContainer == InitContainer /\ [][NextContainer]_vars

\* --------------------------------------------------- pointer-driven grabs
\* pointer positions (in pixels) over the thirds of an 800x600 window at the
\* origin, next to it and far away; one of them lies between two pixels
PointerPositions ==
    {<<Px(100), Px(100)>>, <<Px(400), Px(100)>>, <<Px(700), Px(100)>>,
     <<-1, Px(300) + 1>>, <<Px(400), Px(300)>>, <<Px(700), Px(300)>>,
     <<Px(100), Px(500)>>, <<Px(400), Px(500)>>, <<Px(700), Px(500)>>,
     <<Px(900), Px(700)>>, <<Px(-1000), Px(-1000)>>}

Buttons == {BtnLeft, BtnRight, BtnMiddle, BtnMiddle + 1}

ModifierSets == {{}, {"SUPER"}, {"SHIFT"}}

\* an Option<Geometry> is a sequence of at most one Geometry
GeometryHints == {<<>>, <<[x |-> 10, y |-> 10, width |-> 400, height |-> 300]>>}

\* the calls that set the scene before the pointer is used
Scenes ==
    {<<"map">>, <<"map", "map">>, <<"map", "map", "scratchpad">>, <<"map", "workspace2">>}

\* the core after the calls of a scene, made one after the other on Core::new
RECURSIVE Replay(_)
Replay(scene) ==
    IF Len(scene) = 0
    THEN [st |-> State_new, sv |-> <<>>, next |-> 1, order |-> <<>>, actions |-> <<>>]
    ELSE LET before == Replay(SubSeq(scene, 1, Len(scene) - 1))
             call == scene[Len(scene)]
             geo == CHOOSE g \in InitialGeometries : TRUE
             r == CASE call = "map" -> on_window_mapped(before.st, before.sv, before.next, geo)
                    [] call = "scratchpad" -> cmd_move_to_scratchpad(before.st, before.sv)
                    [] OTHER -> cmd_switch_workspace(before.st, before.sv, Number(2))
         IN [st |-> r.st, sv |-> r.sv,
             next |-> IF call = "map" THEN before.next + 1 ELSE before.next,
             order |-> observe_focus(before.order, before.st, r.st),
             actions |-> r.actions]

InitGrab ==
    /\ \E scene \in Scenes :
          LET core == Replay(scene)
          IN /\ state = core.st
             /\ scratchpad_visible = core.sv
             /\ next_wid = core.next
             /\ focus_order = core.order
             /\ actions = core.actions
    /\ lastOp = Op("new", None, "")
    /\ steps = 0
    /\ probe = Probe(ContainerWith(0))
    /\ modifiers = {}

GrabReturn(r, op) ==
    /\ steps < MaxGrabSteps
    /\ steps' = steps + 1
    /\ state' = r.st
    /\ scratchpad_visible' = r.sv
    /\ actions' = r.actions
    /\ lastOp' = op
    /\ focus_order' = observe_focus(focus_order, state, r.st)
    /\ UNCHANGED <<next_wid, probe>>

\* the backend reports the modifier state: input_manager.set_modifiers
SetModifiers ==
    /\ steps < MaxGrabSteps
    /\ steps' = steps + 1
    /\ \E m \in ModifierSets :
          /\ modifiers' = m
          /\ lastOp' = Op("set_modifiers", None, m)
    /\ actions' = <<>>
    /\ UNCHANGED <<state, scratchpad_visible, next_wid, focus_order, probe>>

PointerMotion ==
    /\ \E p \in PointerPositions :
          GrabReturn(on_pointer_motion(state, scratchpad_visible, p[1], p[2]),
                     Op("PointerMotion", None, p))
    /\ UNCHANGED modifiers

PointerButton ==
    /\ \E button \in Buttons : \E pressed \in BOOLEAN :
          GrabReturn(on_pointer_button(state, scratchpad_visible, modifiers, button, pressed),
                     Op("PointerButton", button, pressed))
    /\ UNCHANGED modifiers

GrabWindowUnmapped ==
    /\ \E id \in 1..MaxWid :
          GrabReturn(on_window_unmapped(state, scratchpad_visible, id), Op("WindowUnmapped", id, ""))
    /\ UNCHANGED modifiers

GrabFocusRequested ==
    /\ \E id \in 1..MaxWid :
          GrabReturn(on_focus_requested(state, scratchpad_visible, id), Op("FocusRequested", id, ""))
    /\ UNCHANGED modifiers

WindowCommit ==
    /\ \E id \in 1..MaxWid : \E hint \in GeometryHints :
          GrabReturn(on_window_commit(state, scratchpad_visible, id, hint), Op("WindowCommit", id, hint))
    /\ UNCHANGED modifiers

NextGrab ==
    \/ SetModifiers
    \/ PointerMotion
    \/ PointerButton
    \/ GrabWindowUnmapped
    \/ GrabFocusRequested
    \/ WindowCommit

SpecGrab == InitGrab /\ [][NextGrab]_vars

\* ------------------------------------------------- vocabulary of the claims
focused_window == state.focus.focused_window

focused_workspace == state.focus.focused_workspace

Exists(st, id) == id \in DOMAIN st.windows

HasFlag(st, id, flag) == flag \in st.windows[id].state

Count(s, x) == Cardinality({i \in 1..Len(s) : s[i] = x})

ActionsOfType(acts, type) == SelectSeq(acts, LAMBDA a : a.type = type)

GeometryActionsFor(acts, id) == SelectSeq(acts, LAMBDA a : a.type = "SetWindowGeometry" /\ a.id = id)

\* the windows a workspace lists, tiled or floating
WindowsOn(st, ws) == Range(st.workspaces[ws].tiled_windows) \cup Range(st.workspaces[ws].floating_windows)

\* the window of `ws` that became focused most recently, by the observer's order
MostRecentOn(order, st, ws) ==
    LastOrNone(SelectSeq(order, LAMBDA w : w \in DOMAIN st.windows /\ st.windows[w].workspace = ws))

\* ---------------------------------------------------------------- claims

\* C1: after any sequence of handle_event/exec calls (map, unmap, focus
\* request, workspace switch, move-to-workspace, floating toggle, mark,
\* MoveToScratchpad, ScratchpadShow) validate_invariants returns Ok.
C1_ValidateInvariantsOk == validate(state) = "Ok"

\* C2: a tick() right after a WindowMapped event finds the mapped window
\* focused and returns at least one SetWindowGeometry action for every tiled
\* window of the focused workspace (three or more after mapping W1, W2, W3).
C2_TickAfterMapEmitsGeometry ==
    [][(lastOp.op = "WindowMapped" /\ lastOp'.op = "Tick" /\ state.outputs # EmptyMap)
        => /\ state.focus.focused_window = lastOp.id
           /\ \A w \in Range(state.workspaces[state.focus.focused_workspace].tiled_windows) :
                 Len(GeometryActionsFor(actions', w)) >= 1]_vars

\* C3: a window that is in the scratchpad list and is listed by its
\* workspace (tiled or floating) carries the HIDDEN flag.
C3_ScratchpadImpliesHidden ==
    \A w \in DOMAIN state.windows :
        (Contains(state.scratchpad, w)
         /\ state.windows[w].workspace # None
         /\ w \in WindowsOn(state, state.windows[w].workspace))
        => HasFlag(state, w, "HIDDEN")

\* C4: after Command::Workspace switches to a workspace that contains
\* windows, the focused window is the window of that workspace that was
\* focused most recently.
C4_SwitchFocusesMostRecentlyUsed ==
    [][(lastOp'.op = "Workspace" /\ WindowsOn(state, lastOp'.id) # {})
        => state'.focus.focused_window = MostRecentOn(focus_order, state, lastOp'.id)]_vars

\* C5: the focused window, if set, exists; the focused workspace, if set, is
\* one of the ten workspaces; every mark points to an existing window.
C5_FocusAndMarksResolve ==
    /\ focused_window # None => Exists(state, focused_window)
    /\ focused_workspace # None => focused_workspace \in DOMAIN state.workspaces
    /\ DOMAIN state.workspaces = 1..NumWorkspaces
    /\ \A m \in DOMAIN state.marks : Exists(state, state.marks[m])

\* the focused window was unmapped and focus went back to a window that
\* holds a mark (the restored window is the one left without the FOCUSED flag)
C5_Witness ==
    /\ lastOp.op = "WindowUnmapped"
    /\ lastOp.id < next_wid
    /\ ~Exists(state, lastOp.id)
    /\ state.focus.previous_window = lastOp.id
    /\ focused_window # None
    /\ ~HasFlag(state, focused_window, "FOCUSED")
    /\ \E m \in DOMAIN state.marks : state.marks[m] = focused_window

\* C6: unmapping the focused window moves focus to the most recently focused
\* other window that still exists, or to None when there is none; unmapping
\* any other window leaves focused_window unchanged.
C6_UnmapRestoresFocus ==
    [][(lastOp'.op = "WindowUnmapped" /\ Exists(state, lastOp'.id))
        => IF state.focus.focused_window = lastOp'.id
           THEN state'.focus.focused_window = LastOrNone(Retain(focus_order, lastOp'.id))
           ELSE state'.focus.focused_window = state.focus.focused_window]_vars

\* the focused window was unmapped while two others remained: focus went to
\* the newer of the two and the older one is still in the history
C6_Witness ==
    /\ lastOp.op = "WindowUnmapped"
    /\ state.focus.previous_window = lastOp.id
    /\ ~Exists(state, lastOp.id)
    /\ Cardinality(DOMAIN state.windows) = 2
    /\ focused_window # None
    /\ ~HasFlag(state, focused_window, "FOCUSED")
    /\ Len(state.focus.focus_history) = 1
    /\ focus_order = state.focus.focus_history \o <<focused_window>>
    /\ Contains(actions, SetFocus(focused_window))

\* C7: after WindowUnmapped{id} for a mapped id, id is in no windows map,
\* tiled/floating list, focus stack, layout tree, focus history, scratchpad
\* list or mark, and the returned actions contain SetFocus{focused_window}.
Gone(st, id) ==
    /\ id \notin DOMAIN st.windows
    /\ \A ws \in DOMAIN st.workspaces :
          /\ ~Contains(st.workspaces[ws].tiled_windows, id)
          /\ ~Contains(st.workspaces[ws].floating_windows, id)
          /\ ~Contains(st.workspaces[ws].focus_stack, id)
          /\ id \notin TreeWindows(st.workspaces[ws].layout)
          /\ id \notin DOMAIN st.workspaces[ws].layout.window_geometries
    /\ ~Contains(st.focus.focus_history, id)
    /\ ~Contains(st.scratchpad, id)
    /\ \A m \in DOMAIN st.marks : st.marks[m] # id

C8_FocusWindowPostcondition ==
    [][(lastOp'.op = "FocusRequested" /\ Exists(state, lastOp'.id)
        /\ state.focus.focused_window # lastOp'.id)
        => LET id == lastOp'.id
               prev == state.focus.focused_window
           IN /\ state'.focus.focused_window = id
              /\ HasFlag(state', id, "FOCUSED")
              /\ (prev # None /\ Exists(state', prev)) => ~HasFlag(state', prev, "FOCUSED")
              /\ prev # None => LastOrNone(state'.focus.focus_history) = prev
              /\ state'.focus.focused_workspace = state'.windows[id].workspace]_vars

C8_Witness ==
    /\ lastOp.op = "FocusRequested"
    /\ focused_window = lastOp.id
    /\ state.focus.previous_window \notin {None, lastOp.id}
    /\ Exists(state, state.focus.previous_window)
    /\ LastOrNone(state.focus.focus_history) = state.focus.previous_window
    /\ state.windows[state.focus.previous_window].workspace # focused_workspace

\* C9: WindowMapped{id} for a fresh id puts the window on the focused
\* workspace (the first one when none is focused), appends it to that
\* workspace's tiled list, focuses it, and returns exactly one SetFocus{id}
\* plus exactly one SetWindowGeometry per window of that tiled list.
C9_WindowMappedPostcondition ==
    [][lastOp'.op = "WindowMapped"
        => LET id == lastOp'.id
               ws == IF state.focus.focused_workspace # None
                     THEN state.focus.focused_workspace ELSE 1
               tiled == state'.workspaces[ws].tiled_windows
           IN /\ ~Exists(state, id)
              /\ state'.windows[id].workspace = ws
              /\ tiled = Append(state.workspaces[ws].tiled_windows, id)
              /\ state'.focus.focused_window = id
              /\ ActionsOfType(actions', "SetFocus") = <<SetFocus(id)>>
              /\ \A w \in Range(tiled) : Len(GeometryActionsFor(actions', w)) = 1
              /\ Len(actions') = 1 + Len(tiled)]_vars

C9_Witness ==
    /\ lastOp.op = "WindowMapped"
    /\ focused_window = lastOp.id
    /\ state.windows[lastOp.id].workspace = 2
    /\ Len(state.workspaces[2].tiled_windows) = 2
    /\ Len(actions) = 3

\* C10: every existing window id appears exactly once across the tiled and
\* floating lists of all workspaces, and that one place is a list of the
\* workspace its workspace field names.
Occurrences(st, ws, id) ==
    Count(st.workspaces[ws].tiled_windows, id) + Count(st.workspaces[ws].floating_windows, id)

C10_OneListOfOneWorkspace ==
    \A w \in DOMAIN state.windows :
        /\ state.windows[w].workspace \in DOMAIN state.workspaces
        /\ Occurrences(state, state.windows[w].workspace, w) = 1
        /\ \A ws \in DOMAIN state.workspaces :
              ws # state.windows[w].workspace => Occurrences(state, ws, w) = 0

C10_Witness ==
    /\ lastOp.op = "MoveToWorkspace"
    /\ \E w \in DOMAIN state.windows :
          /\ state.windows[w].workspace = 2
          /\ Contains(state.workspaces[2].tiled_windows, w)
          /\ HasFlag(state, w, "FLOATING")
    /\ \E w \in DOMAIN state.windows : Contains(state.workspaces[1].floating_windows, w)

\* the number of places (container, index) at which a tree holds window w
TreeOccurrences(t, w) ==
    Cardinality({p \in {<<c, i>> : c \in DOMAIN t.containers, i \in 1..MaxWid + 1} :
                    /\ p[2] <= Len(t.containers[p[1]].children)
                    /\ t.containers[p[1]].children[p[2]] = WindowNode(w)})

\* C11: for every workspace the window ids held in its layout tree are
\* exactly those of its tiled_windows list, each of them is in exactly one
\* container's children list exactly once, and no window of its
\* floating_windows list is in the tree or in the layout geometry cache.
C11_TreeMatchesTiledList ==
    \A ws \in DOMAIN state.workspaces :
        LET W == state.workspaces[ws]
        IN /\ TreeWindows(W.layout) = Range(W.tiled_windows)
           /\ \A w \in Range(W.tiled_windows) :
                 Count(W.tiled_windows, w) = 1 /\ TreeOccurrences(W.layout, w) = 1
           /\ \A w \in Range(W.floating_windows) :
                 /\ w \notin TreeWindows(W.layout)
                 /\ w \notin DOMAIN W.layout.window_geometries

\* a floating window was made tiled again next to another tiled window while
\* a third window floats on the same workspace
C11_Witness ==
    /\ lastOp.op = "Floating"
    /\ Contains(actions, SetFloating(focused_window, FALSE))
    /\ LET W == state.workspaces[focused_workspace]
       IN /\ Len(W.tiled_windows) = 2
          /\ Len(W.floating_windows) = 1
          /\ Contains(W.tiled_windows, focused_window)
          /\ DOMAIN W.layout.window_geometries = Range(W.tiled_windows)

\* C12: exec(MoveToWorkspace(target)) with a focused window and a target
\* that resolves to another workspace than the window's leaves the window
\* with the destination in its workspace field and in the destination's
\* tiled list (also when it was floating), and in no list of the source.
C12_MoveToWorkspacePostcondition ==
    [][(lastOp'.op = "MoveToWorkspace"
        /\ state.focus.focused_window # None
        /\ state.windows[state.focus.focused_window].workspace # lastOp'.id)
        => LET w == state.focus.focused_window
               src == state.windows[w].workspace
               dst == lastOp'.id
           IN /\ state'.windows[w].workspace = dst
              /\ Count(state'.workspaces[dst].tiled_windows, w) = 1
              /\ ~Contains(state'.workspaces[dst].floating_windows, w)
              /\ w \in TreeWindows(state'.workspaces[dst].layout)
              /\ ~Workspace_contains(state'.workspaces[src], w)
              /\ ~Contains(state'.workspaces[src].focus_stack, w)
              /\ w \notin TreeWindows(state'.workspaces[src].layout)
              /\ state'.workspaces[src].fullscreen_window # w]_vars

\* the focused floating window was moved away from the focused workspace,
\* which keeps another window
C12_Witness ==
    /\ lastOp.op = "MoveToWorkspace"
    /\ focused_window # None
    /\ state.windows[focused_window].workspace = lastOp.id
    /\ focused_workspace # lastOp.id
    /\ HasFlag(state, focused_window, "FLOATING")
    /\ LastOrNone(state.workspaces[lastOp.id].tiled_windows) = focused_window
    /\ WindowsOn(state, focused_workspace) # {}
    /\ focused_window \notin WindowsOn(state, focused_workspace)

\* the classification of a window: its FLOATING flag and the list of its
\* workspace that holds it
Classification(st, w) ==
    [flag |-> HasFlag(st, w, "FLOATING"),
     tiled |-> Contains(st.workspaces[st.windows[w].workspace].tiled_windows, w),
     floating |-> Contains(st.workspaces[st.windows[w].workspace].floating_windows, w)]

\* C13: from any reachable state with a focused window, Floating(Switch)
\* executed twice gives the window back its FLOATING flag and its tiled or
\* floating list membership, never changes focused_window, and the two
\* batches carry SetFloating for the window with opposite values.
C13_FloatingTwiceRestores ==
    [][(lastOp'.op = "Floating" /\ lastOp'.arg = "Switch" /\ state.focus.focused_window # None)
        => LET w == state.focus.focused_window
               second == cmd_floating(state', scratchpad_visible', "Switch")
           IN /\ Classification(second.st, w) = Classification(state, w)
              /\ state'.focus.focused_window = w
              /\ second.st.focus.focused_window = w
              /\ \E f \in BOOLEAN : /\ Contains(actions', SetFloating(w, f))
                                     /\ Contains(second.actions, SetFloating(w, ~f))]_vars

\* a is in the batch and some b-typed action comes after it
FollowedBy(acts, a, type) ==
    \E i \in 1..Len(acts) : \E j \in (i + 1)..Len(acts) : acts[i] = a /\ acts[j].type = type

\* C14: exec(Workspace(target)) with a target resolving to workspace id
\* returns a batch with WorkspaceChanged{active: Some(id)} followed by a
\* SetFocus action and leaves focused_workspace() = id; with a window mapped
\* on workspace 1, Workspace(Number(2)) makes workspace 2 the focused one.
C14_SwitchWorkspacePostcondition ==
    [][lastOp'.op = "Workspace"
        => LET id == resolve_workspace_target(state, Number(lastOp'.id))
           IN /\ id = lastOp'.id
              /\ FollowedBy(actions', WorkspaceChanged(id), "SetFocus")
              /\ state'.focus.focused_workspace = id]_vars

\* Workspace(Number(2)) was executed while the only window lives on workspace 1
C14_Witness ==
    /\ lastOp = Op("Workspace", 2, "")
    /\ DOMAIN state.windows # {}
    /\ \A w \in DOMAIN state.windows : state.windows[w].workspace = 1
    /\ focused_workspace = 2
    /\ actions = <<WorkspaceChanged(2), SetFocus(focused_window)>>

\* C15: when mark m names window W (Mark(m) was executed while W was focused
\* and W is still mapped), exec(GotoMark(m)) makes W the focused window,
\* returns a batch containing SetFocus{Some(W)} and, when W lives on another
\* workspace than the one focused before, WorkspaceChanged with W's
\* workspace ahead of that SetFocus.
C15_GotoMarkFocusesMarkedWindow ==
    [][(lastOp'.op = "GotoMark" /\ lastOp'.arg \in DOMAIN state.marks)
        => LET W == state.marks[lastOp'.arg]
               ws == state.windows[W].workspace
           IN /\ state'.focus.focused_window = W
              /\ Contains(actions', SetFocus(W))
              /\ ws # state.focus.focused_workspace
                    => /\ FollowedBy(actions', WorkspaceChanged(ws), "SetFocus")
                       /\ state'.focus.focused_workspace = ws]_vars

\* GotoMark went from workspace 2, with another window focused, back to the
\* marked window on workspace 1
C15_Witness ==
    /\ lastOp.op = "GotoMark"
    /\ lastOp.arg \in DOMAIN state.marks
    /\ focused_window = state.marks[lastOp.arg]
    /\ actions = <<WorkspaceChanged(1), SetFocus(focused_window)>>
    /\ state.focus.previous_window # None
    /\ Exists(state, state.focus.previous_window)
    /\ state.windows[state.focus.previous_window].workspace = 2

\* the area left by the outer gap, as calculate_layout computes it
Inset(area, outer_gap) ==
    Geometry_new(area.x + outer_gap, area.y + outer_gap,
                 SaturatingSub(area.width, outer_gap * 2), SaturatingSub(area.height, outer_gap * 2))

\* start and extent of a rectangle along / across the split axis
AxisStart(g, dir) == IF dir = "Horizontal" THEN g.x ELSE g.y

AxisSize(g, dir) == IF dir = "Horizontal" THEN g.width ELSE g.height

CrossStart(g, dir) == IF dir = "Horizontal" THEN g.y ELSE g.x

CrossSize(g, dir) == IF dir = "Horizontal" THEN g.height ELSE g.width

\* the rectangles `geos` tile `inner` along the split axis of container c:
\* sizes are genuine u32 values (no wrapped bit pattern), the first child
\* starts at the start of inner, neighbours are one gap apart, the last child
\* ends at the end of inner, every child spans the cross axis
TilesSplit(c, geos, inner) ==
    LET n == Len(c.children)
        dir == c.split_direction
        g(i) == geos[c.children[i].id]
    IN /\ \A i \in 1..n : c.children[i].id \in DOMAIN geos
       /\ \A i \in 1..n : AxisSize(g(i), dir) >= 0
       /\ AxisStart(g(1), dir) = AxisStart(inner, dir)
       /\ \A i \in 1..(n - 1) :
             AxisStart(g(i + 1), dir) = AxisStart(g(i), dir) + AxisSize(g(i), dir) + c.gap
       /\ AxisStart(g(n), dir) + AxisSize(g(n), dir) = AxisStart(inner, dir) + AxisSize(inner, dir)
       /\ \A i \in 1..n : /\ CrossStart(g(i), dir) = CrossStart(inner, dir)
                           /\ CrossSize(g(i), dir) = CrossSize(inner, dir)
       /\ \A i \in 1..n : \A j \in (i + 1)..n :
             AxisStart(g(i), dir) + AxisSize(g(i), dir) <= AxisStart(g(j), dir)

\* C16: for the root Split container of every tree built by add_window and
\* remove_window, holding n >= 1 windows, calculate_layout(area, outer_gap)
\* yields rectangles that start at the inset area's start, are separated by
\* exactly the container gap, end exactly at the inset area's end and span
\* the full cross axis, so that they never overlap.
C16_SplitTilesInsetArea ==
    \A ws \in DOMAIN state.workspaces :
        LET W == state.workspaces[ws]
            t == W.layout
        IN (t.root # None /\ t.containers[t.root].layout = "Split")
           => TilesSplit(t.containers[t.root],
                         LayoutTree_calculate_layout(t, W.work_area, GapOuter).window_geometries,
                         Inset(W.work_area, GapOuter))

\* C17: resize_child(index, delta) on a container with at least two
\* children moves ratios[index] and ratios[index+1] by equal and opposite
\* amounts, changes no other ratio and, whatever delta is, leaves both at or
\* above 0.05; with index at or beyond the last child nothing changes.
C17_ResizeChildClamps ==
    [][lastOp'.op = "resize_child"
        => LET c == probe.container
               c2 == probe'.container
               n == Len(c.children)
               i == lastOp'.id
           IN /\ ~probe'.panicked
              /\ IF n >= 2 /\ i < n - 1
                 THEN /\ FAdd(c2.ratios[i + 1], c2.ratios[i + 2]) = FAdd(c.ratios[i + 1], c.ratios[i + 2])
                      /\ FSub(c2.ratios[i + 1], c.ratios[i + 1]) = FSub(c.ratios[i + 2], c2.ratios[i + 2])
                      /\ \A k \in 1..n : k \notin {i + 1, i + 2} => c2.ratios[k] = c.ratios[k]
                      /\ FLe(MinRatio, c2.ratios[i + 1])
                      /\ FLe(MinRatio, c2.ratios[i + 2])
                      /\ c2.children = c.children
                 ELSE c2 = c]_vars

\* the geometry map calculate_layout leaves in a tree
Laid(t, area) == LayoutTree_calculate_layout(t, area, GapOuter).window_geometries

\* C18: calculate_layout called twice with the same area and outer gap on an
\* unchanged tree yields the same geometry map; the map is rebuilt from the
\* tree alone (what an earlier pass left in the cache has no influence) and
\* holds entries only for windows that are in the tree.
C18_CalculateLayoutIdempotent ==
    \A ws \in DOMAIN state.workspaces :
        LET W == state.workspaces[ws]
            t == W.layout
            once == LayoutTree_calculate_layout(t, W.work_area, GapOuter)
            twice == LayoutTree_calculate_layout(once, W.work_area, GapOuter)
        IN /\ twice.window_geometries = once.window_geometries
           /\ once.window_geometries = Laid([t EXCEPT !.window_geometries = EmptyMap], W.work_area)
           /\ DOMAIN once.window_geometries \subseteq TreeWindows(t)

\* a workspace whose cache is out of date: it holds the rectangle of an
\* earlier pass for one window while the tree has two
C18_Witness ==
    \E ws \in DOMAIN state.workspaces :
        LET W == state.workspaces[ws]
            t == W.layout
        IN /\ W.work_area.width > 0
           /\ Cardinality(TreeWindows(t)) = 2
           /\ Cardinality(DOMAIN t.window_geometries) = 1
           /\ \E w \in DOMAIN t.window_geometries : t.window_geometries[w] # Laid(t, W.work_area)[w]

\* the visibility rule: on the focused workspace, shown from the scratchpad, or sticky
Visible(st, sv, w) ==
    \/ st.windows[w].workspace = st.focus.focused_workspace
    \/ Contains(sv, w)
    \/ HasFlag(st, w, "STICKY")

\* C19: after every tick(), every window has HIDDEN clear exactly when it
\* is on the focused workspace, in the shown scratchpad set or STICKY,
\* whatever events and commands came before the tick.
C19_TickSettlesVisibility ==
    [][lastOp'.op = "Tick"
        => \A w \in DOMAIN state'.windows :
              ~HasFlag(state', w, "HIDDEN") <=> Visible(state', scratchpad_visible', w)]_vars

\* C20: tick() emits geometry actions only when layout_dirty is set, leaves
\* layout_dirty false, and a tick() right after a tick() returns no action
\* and changes no state.
C20_TickOnlyWhenDirty ==
    [][lastOp'.op = "Tick"
        => /\ ~state.layout_dirty => (actions' = <<>> /\ state' = state)
           /\ ~state'.layout_dirty
           /\ scratchpad_visible' = scratchpad_visible
           /\ lastOp.op = "Tick" => (actions' = <<>> /\ state' = state)
           /\ on_tick(state', scratchpad_visible') = Result(state', scratchpad_visible', <<>>)]_vars

\* a tick found the layout dirty and returned the geometry of two windows
C20_Witness ==
    /\ lastOp.op = "Tick"
    /\ Len(ActionsOfType(actions, "SetWindowGeometry")) = 2
    /\ Len(actions) = 2
    /\ ~state.layout_dirty
    /\ \E w \in DOMAIN state.windows : HasFlag(state, w, "HIDDEN")

\* ------------------------------------------------- workspace targets
\* every WorkspaceTarget the model has: Number(0), Number(1..10), Number(11),
\* Next, Prev and BackAndForth
WorkspaceTargets ==
    {Number(n) : n \in 0..(NumWorkspaces + 1)} \cup {TargetNext, TargetPrev, BackAndForth}

TargetReturn(r, op) ==
    /\ steps < MaxTargetSteps
    /\ steps' = steps + 1
    /\ state' = r.st
    /\ scratchpad_visible' = r.sv
    /\ actions' = r.actions
    /\ lastOp' = op
    /\ focus_order' = observe_focus(focus_order, state, r.st)
    /\ UNCHANGED <<probe, modifiers>>

TargetWindowMapped ==
    /\ next_wid <= MaxWid
    /\ \E geo \in InitialGeometries :
          TargetReturn(on_window_mapped(state, scratchpad_visible, next_wid, geo),
                       Op("WindowMapped", next_wid, ""))
    /\ next_wid' = next_wid + 1

ExecWorkspaceTarget ==
    /\ \E target \in WorkspaceTargets :
          TargetReturn(cmd_switch_workspace(state, scratchpad_visible, target),
                       Op("Workspace", target.num, target.kind))
    /\ UNCHANGED next_wid

ExecMoveToWorkspaceTarget ==
    /\ \E target \in WorkspaceTargets :
          TargetReturn(cmd_move_to_workspace(state, scratchpad_visible, target),
                       Op("MoveToWorkspace", target.num, target.kind))
    /\ UNCHANGED next_wid

NextTargets ==
    \/ TargetWindowMapped
    \/ ExecWorkspaceTarget
    \/ ExecMoveToWorkspaceTarget

SpecTargets == Init /\ [][NextTargets]_vars

\* --------------------------------------------------- claims on the grab
Grabbing(st) == st.grabbed_window # NoGrab

\* the geometry of the grabbed window
GrabbedGeometry(st) == st.windows[st.grabbed_window.window_id].geometry

\* the window is not hidden, belongs to the focused workspace and covers the
\* pixel the pointer is in
VisibleUnderPointer(st, w) ==
    /\ w \in DOMAIN st.windows
    /\ ~HasFlag(st, w, "HIDDEN")
    /\ st.windows[w].workspace = st.focus.focused_workspace
    /\ w \in WindowsOn(st, st.focus.focused_workspace)
    /\ Geometry_contains(st.windows[w].geometry,
                         ToI32(st.pointer_position[1]), ToI32(st.pointer_position[2]))

\* C21: a PointerButton event with pressed = false leaves no grab
\* (grabbed_window = None), whatever its button and whatever button started
\* the grab.
C21_ReleaseEndsGrab ==
    [][(lastOp'.op = "PointerButton" /\ lastOp'.arg = FALSE)
        => state'.grabbed_window = NoGrab]_vars

\* a grab moved or resized a window and was ended by the release of a
\* button that cannot have started it
C21_Witness ==
    /\ lastOp = Op("PointerButton", BtnMiddle + 1, FALSE)
    /\ ~Grabbing(state)
    /\ steps = 4
    /\ \E w \in DOMAIN state.windows : state.windows[w].geometry \notin InitialGeometries

\* C22: a grab starts only on a PointerButton press with SUPER held and a
\* visible window of the focused workspace under the pointer; button 272
\* starts a Move grab without edges, 273 and 274 a Resize grab, no other
\* button starts one; the grab holds the window's geometry and the pointer
\* position of the press.
C22_GrabStartsOnSuperPress ==
    [][(~Grabbing(state) /\ Grabbing(state'))
        => LET grab == state'.grabbed_window
           IN /\ lastOp'.op = "PointerButton"
              /\ lastOp'.arg = TRUE
              /\ "SUPER" \in modifiers
              /\ VisibleUnderPointer(state, grab.window_id)
              /\ lastOp'.id \in {BtnLeft, BtnRight, BtnMiddle}
              /\ lastOp'.id = BtnLeft => (grab.operation = "Move" /\ grab.edges = {})
              /\ lastOp'.id \in {BtnRight, BtnMiddle} => grab.operation = "Resize"
              /\ grab.initial_geometry = state.windows[grab.window_id].geometry
              /\ grab.initial_pointer = state.pointer_position]_vars

\* a middle-button press with SUPER held grabbed the window below a hidden one
C22_Witness ==
    /\ lastOp = Op("PointerButton", BtnMiddle, TRUE)
    /\ Grabbing(state)
    /\ state.grabbed_window.operation = "Resize"
    /\ state.grabbed_window.initial_pointer = state.pointer_position
    /\ state.pointer_position \in PointerPositions
    /\ \E w \in DOMAIN state.windows :
          /\ w # state.grabbed_window.window_id
          /\ HasFlag(state, w, "HIDDEN")
          /\ Geometry_contains(state.windows[w].geometry,
                               ToI32(state.pointer_position[1]), ToI32(state.pointer_position[2]))

\* the edges of the 3x3 grid cell of a click: outer thirds name their edge,
\* the center third names none
GridEdges(px, py, geo) ==
    LET x == px - Px(geo.x)
        y == py - Px(geo.y)
    IN (IF 3 * x < 2 * geo.width THEN {"LEFT"} ELSE {})
       \cup (IF 3 * x > 4 * geo.width THEN {"RIGHT"} ELSE {})
       \cup (IF 3 * y < 2 * geo.height THEN {"TOP"} ELSE {})
       \cup (IF 3 * y > 4 * geo.height THEN {"BOTTOM"} ELSE {})

\* a Resize press has just started a grab
ResizePress ==
    /\ lastOp'.op = "PointerButton"
    /\ lastOp'.arg = TRUE
    /\ lastOp'.id \in {BtnRight, BtnMiddle}
    /\ Grabbing(state')
    /\ state'.grabbed_window # state.grabbed_window

\* the pointer positions a motion event can report do not change the geometry
MotionLeavesGeometry(st, sv) ==
    \A p \in PointerPositions :
        on_pointer_motion(st, sv, p[1], p[2]).st.windows[st.grabbed_window.window_id].geometry
            = GrabbedGeometry(st)

\* C23: a Resize press selects the edges of the 3x3 grid cell of the click:
\* the matching edge or corner in the outer thirds and no edge in the center
\* third, where later pointer motion leaves the geometry alone.
C23_CenterClickSelectsNothing ==
    [][ResizePress
        => LET grab == state'.grabbed_window
               cell == GridEdges(grab.initial_pointer[1], grab.initial_pointer[2], grab.initial_geometry)
           IN /\ grab.edges = cell
              /\ cell = {} => MotionLeavesGeometry(state', scratchpad_visible')]_vars

\* C23 as the code has it: the outer thirds select the matching edge or
\* corner and the center third selects the bottom-right corner, so a Resize
\* grab always has an active edge.
C23_CenterClickSelectsBottomRight ==
    [][ResizePress
        => LET grab == state'.grabbed_window
               cell == GridEdges(grab.initial_pointer[1], grab.initial_pointer[2], grab.initial_geometry)
           IN /\ cell # {} => grab.edges = cell
              /\ cell = {} => grab.edges = {"BOTTOM", "RIGHT"}
              /\ grab.edges # {}]_vars

\* a Resize press in the center third of the window
C23_Witness ==
    /\ lastOp.op = "PointerButton"
    /\ lastOp.arg = TRUE
    /\ lastOp.id = BtnRight
    /\ Grabbing(state)
    /\ state.grabbed_window.operation = "Resize"
    /\ GridEdges(state.pointer_position[1], state.pointer_position[2],
                 state.grabbed_window.initial_geometry) = {}
    /\ state.grabbed_window.edges = {"BOTTOM", "RIGHT"}

\* C24: during a grab a PointerMotion event leaves the core in a state from
\* which a motion to any position q yields the geometry that the motion to
\* q would have yielded directly: the geometry depends on the grab's initial
\* geometry and pointer and on the current pointer only, whatever motions
\* came in between.
C24_MotionIsPathIndependent ==
    [][(lastOp'.op = "PointerMotion" /\ Grabbing(state)
        /\ state.grabbed_window.window_id \in DOMAIN state.windows)
        => LET w == state.grabbed_window.window_id
           IN /\ state'.grabbed_window = state.grabbed_window
              /\ \A q \in PointerPositions :
                    on_pointer_motion(state', scratchpad_visible', q[1], q[2]).st.windows[w].geometry
                      = on_pointer_motion(state, scratchpad_visible, q[1], q[2]).st.windows[w].geometry
              /\ state'.windows[w].geometry
                    = on_pointer_motion([state EXCEPT !.windows[w].geometry = state.grabbed_window.initial_geometry],
                                        scratchpad_visible, lastOp'.arg[1], lastOp'.arg[2]).st.windows[w].geometry]_vars

\* a Move grab that started before the pointer moved has dragged the window
C24_Witness ==
    /\ lastOp.op = "PointerMotion"
    /\ Grabbing(state)
    /\ state.grabbed_window.operation = "Move"
    /\ state.grabbed_window.window_id \in DOMAIN state.windows
    /\ GrabbedGeometry(state).x # state.grabbed_window.initial_geometry.x
    /\ GrabbedGeometry(state).y # state.grabbed_window.initial_geometry.y
    /\ steps = MaxGrabSteps

\* C25: during a Resize grab every PointerMotion leaves each dimension of
\* an active edge at 100 or more, leaves what belongs to no active edge as
\* it was, and keeps the opposite edge in place for LEFT (x + width) and TOP
\* (y + height), clamped or not.
C25_ResizeClampsAndAnchors ==
    [][(lastOp'.op = "PointerMotion" /\ Grabbing(state)
        /\ state.grabbed_window.operation = "Resize"
        /\ state.grabbed_window.window_id \in DOMAIN state.windows)
        => LET grab == state.grabbed_window
               e == grab.edges
               initial == grab.initial_geometry
               old == GrabbedGeometry(state)
               new == state'.windows[grab.window_id].geometry
           IN /\ ({"LEFT", "RIGHT"} \cap e # {}) => new.width >= MinGrabSize
              /\ ({"TOP", "BOTTOM"} \cap e # {}) => new.height >= MinGrabSize
              /\ ({"LEFT", "RIGHT"} \cap e = {}) => new.width = old.width
              /\ ({"TOP", "BOTTOM"} \cap e = {}) => new.height = old.height
              /\ "LEFT" \notin e => new.x = old.x
              /\ "TOP" \notin e => new.y = old.y
              /\ "LEFT" \in e => new.x + new.width = initial.x + initial.width
              /\ "TOP" \in e => new.y + new.height = initial.y + initial.height]_vars

\* a left-edge resize was dragged past the minimum width: the width is
\* clamped and the right edge has not moved
C25_Witness ==
    /\ lastOp.op = "PointerMotion"
    /\ Grabbing(state)
    /\ state.grabbed_window.operation = "Resize"
    /\ state.grabbed_window.edges = {"LEFT"}
    /\ state.grabbed_window.window_id \in DOMAIN state.windows
    /\ GrabbedGeometry(state).width = MinGrabSize
    /\ GrabbedGeometry(state).x > state.grabbed_window.initial_geometry.x
    /\ state.grabbed_window.initial_geometry.width < ToI32(state.pointer_position[1] - state.grabbed_window.initial_pointer[1])

\* C26: WindowUnmapped, FocusRequested and WindowCommit for an id that is
\* not mapped return no action and leave the whole State unchanged.
C26_UnknownWindowIsNoOp ==
    [][(lastOp'.op \in {"WindowUnmapped", "FocusRequested", "WindowCommit"}
        /\ lastOp'.id \notin DOMAIN state.windows)
        => /\ actions' = <<>>
           /\ state' = state
           /\ scratchpad_visible' = scratchpad_visible]_vars

\* a commit with a geometry hint named a window that was unmapped during its grab
C26_Witness ==
    /\ lastOp.op = "WindowCommit"
    /\ Len(lastOp.arg) = 1
    /\ lastOp.id \notin DOMAIN state.windows
    /\ lastOp.id < next_wid
    /\ actions = <<>>
    /\ DOMAIN state.windows # {}

\* C27: exec(GotoMark(m)) for a mark m that is not in the marks map leaves
\* the State unchanged and returns an empty action list.
C27_GotoMissingMarkIsNoOp ==
    [][(lastOp'.op = "GotoMark" /\ lastOp'.arg \notin DOMAIN state.marks)
        => /\ state' = state
           /\ actions' = <<>>]_vars

\* ---------------------------------------------- claims on workspace targets
\* the n-th workspace in creation order: State::new creates the ids 1..10
NthWorkspace(n) == n

\* C28: Number(n) is 1-based: for 1 <= n <= 10 it resolves to the n-th
\* workspace in creation order, and for any other n it resolves to no
\* workspace, so Workspace(Number(n)) and MoveToWorkspace(Number(n)) return no
\* action and leave the State unchanged.
C28_NumberIsOneBased ==
    [][(lastOp'.op \in {"Workspace", "MoveToWorkspace"} /\ lastOp'.arg = "Number")
        => LET n == lastOp'.id
           IN /\ n \in 1..NumWorkspaces
                   => /\ resolve_workspace_target(state, Number(n)) = NthWorkspace(n)
                      /\ lastOp'.op = "Workspace" => state'.focus.focused_workspace = NthWorkspace(n)
              /\ n \notin 1..NumWorkspaces
                   => /\ resolve_workspace_target(state, Number(n)) = None
                      /\ actions' = <<>>
                      /\ state' = state]_vars

\* k consecutive Workspace(target) commands
RECURSIVE SwitchTimes(_, _, _, _)
SwitchTimes(st, sv, target, k) ==
    IF k = 0 THEN st
    ELSE SwitchTimes(cmd_switch_workspace(st, sv, target).st, sv, target, k - 1)

\* C29: Workspace(Next) and Workspace(Prev) walk the ten workspaces in
\* creation order and wrap around at both ends; a Prev after a Next and a
\* Next after a Prev lead back to the focused workspace they started from,
\* and so do ten Next commands in a row; Workspace(BackAndForth) resolves to
\* no target, returns no action and changes nothing.
C29_NextPrevWrapAround ==
    [][(lastOp'.op = "Workspace" /\ lastOp'.arg \in {"Next", "Prev", "BackAndForth"}
        /\ state.focus.focused_workspace # None)
        => LET cur == state.focus.focused_workspace
               new == state'.focus.focused_workspace
               sv == scratchpad_visible'
           IN /\ lastOp'.arg = "Next"
                   => /\ new = IF cur = NumWorkspaces THEN 1 ELSE cur + 1
                      /\ SwitchTimes(state', sv, TargetPrev, 1).focus.focused_workspace = cur
                      /\ SwitchTimes(state', sv, TargetNext, NumWorkspaces - 1).focus.focused_workspace = cur
              /\ lastOp'.arg = "Prev"
                   => /\ new = IF cur = 1 THEN NumWorkspaces ELSE cur - 1
                      /\ SwitchTimes(state', sv, TargetNext, 1).focus.focused_workspace = cur
              /\ lastOp'.arg = "BackAndForth"
                   => /\ resolve_workspace_target(state, BackAndForth) = None
                      /\ actions' = <<>>
                      /\ state' = state
                      /\ scratchpad_visible' = scratchpad_visible]_vars

\* Next from the last workspace, which holds a window, selected the first
C29_Witness ==
    /\ lastOp = Op("Workspace", 0, "Next")
    /\ state.focus.focused_workspace = 1
    /\ \E w \in DOMAIN state.windows :
          /\ state.windows[w].workspace = NumWorkspaces
          /\ HasFlag(state, w, "HIDDEN")

\* ------------------------------------------------- claims on containers
RECURSIVE FSum(_)
FSum(ratios) == IF Len(ratios) = 0 THEN <<0, 1>> ELSE FAdd(ratios[1], FSum(Tail(ratios)))

\* one ratio per child
RatiosMatchChildren(c) == Len(c.ratios) = Len(c.children)

\* every ratio is 1/children.len() and, with a child, the ratios sum to 1
EqualShares(c) ==
    /\ RatiosMatchChildren(c)
    /\ \A i \in 1..Len(c.ratios) : c.ratios[i] = <<1, Len(c.children)>>
    /\ Len(c.children) > 0 => FSum(c.ratios) = One

\* no container of the tree is empty and every one has equal shares
TreePruned(t) ==
    /\ \A cid \in DOMAIN t.containers :
          /\ Len(t.containers[cid].children) > 0
          /\ EqualShares(t.containers[cid])
    /\ t.root = None <=> t.containers = EmptyMap
    /\ TreeWindows(t) = {} => (t.root = None /\ t.containers = EmptyMap)

\* C30: a container has one ratio per child at all times; after every
\* add_child, insert_child, remove_child or remove_node that changes the
\* children every ratio is 1/children.len(), whatever resize_child did
\* before, and the ratios sum to 1; a container left without children is
\* removed from its tree at once: removing the last window leaves no root
\* and no container.
C30_EqualSharesAndPruning ==
    [][/\ RatiosMatchChildren(probe.container)
       /\ RatiosMatchChildren(probe'.container)
       /\ lastOp'.op \in {"add_child", "insert_child"}
             => /\ Len(probe'.container.children) = Len(probe.container.children) + 1
                /\ EqualShares(probe'.container)
       /\ lastOp'.op \in {"remove_child", "remove_node"}
             => IF probe'.container.children # probe.container.children
                THEN /\ Len(probe'.container.children) = Len(probe.container.children) - 1
                     /\ EqualShares(probe'.container)
                ELSE probe'.container = probe.container
       /\ lastOp'.op \in {"add_window", "remove_window"}
             => /\ TreePruned(probe.tree)
                /\ TreePruned(probe'.tree)
                /\ TreeWindows(probe'.tree) =
                      IF lastOp'.op = "add_window"
                      THEN TreeWindows(probe.tree) \cup {lastOp'.id}
                      ELSE TreeWindows(probe.tree) \ {lastOp'.id}]_vars

\* the only window of a tree was removed: no root, no container
C30_Witness ==
    /\ lastOp.op = "remove_window"
    /\ steps = 1
    /\ probe.tree.root = None
    /\ probe.tree.containers = EmptyMap

\* k consecutive focus_direction calls
RECURSIVE FocusTimes(_, _, _)
FocusTimes(t, direction, k) ==
    IF k = 0 THEN t ELSE FocusTimes(LayoutTree_focus_direction(t, direction).tree, direction, k - 1)

\* C31: focus_direction moves the focused-child index of the focused
\* container by one and wraps around (Left/Up: previous child, from index 0
\* to the last; Right/Down: next child, from the last to index 0), returns
\* the window at the new index and changes nothing else; the opposite move
\* restores the index, and so do n moves in one direction over n children.
C31_FocusDirectionWraps ==
    [][(lastOp'.op = "focus_direction" /\ probe.tree.focused_container \in DOMAIN probe.tree.containers)
        => LET t == probe.tree
               t2 == probe'.tree
               cid == t.focused_container
               c == t.containers[cid]
               c2 == t2.containers[cid]
               n == Len(c.children)
               direction == lastOp'.arg
           IN /\ n > 0
              /\ c.focused_child < n
              /\ direction \in {"Left", "Up"}
                    => c2.focused_child = IF c.focused_child = 0 THEN n - 1 ELSE c.focused_child - 1
              /\ direction \in {"Right", "Down"}
                    => c2.focused_child = IF c.focused_child = n - 1 THEN 0 ELSE c.focused_child + 1
              /\ probe'.returned = c2.children[c2.focused_child + 1].id
              /\ t2 = [t EXCEPT !.containers[cid].focused_child = c2.focused_child]
              /\ LayoutTree_focus_direction(t2, Direction_opposite(direction)).tree = t
              /\ FocusTimes(t2, direction, n - 1) = t]_vars

\* a move to the left wrapped from the first child to the last one
C31_Witness ==
    /\ lastOp = Op("focus_direction", None, "Left")
    /\ steps = MaxResizes
    /\ probe.tree.root # None
    /\ LET c == probe.tree.containers[probe.tree.root]
       IN /\ Len(c.children) = 2
          /\ c.focused_child = 1
          /\ probe.returned = c.children[2].id

\* ----------------------------------------------------- claims on focus
NoDuplicates(seq) == \A i, j \in 1..Len(seq) : i # j => seq[i] # seq[j]

\* the focus state after the windows 1..HistoryCap+1 were mapped one after
\* the other: each WindowMapped focuses the new window and pushes the one
\* before it
FullHistory ==
    [focused_window |-> HistoryCap + 1, previous_window |-> HistoryCap,
     focused_workspace |-> 1, focus_history |-> [i \in 1..HistoryCap |-> i]]

\* C32: the focus history never holds more than 100 entries, never holds an
\* id twice and holds only ids of windows that exist; focusing one more
\* window with 100 entries in the history drops the oldest entry.
C32_FocusHistoryBounded ==
    /\ Len(state.focus.focus_history) <= HistoryCap
    /\ NoDuplicates(state.focus.focus_history)
    /\ Range(state.focus.focus_history) \subseteq DOMAIN state.windows
    /\ LET f == FocusState_set_focused(FullHistory, HistoryCap + 2)
       IN /\ Len(f.focus_history) = HistoryCap
          /\ f.focus_history[1] = 2
          /\ f.focus_history[HistoryCap] = HistoryCap + 1

\* the history holds two windows after a third one was unmapped
C32_Witness ==
    /\ lastOp.op = "WindowUnmapped"
    /\ lastOp.id \notin DOMAIN state.windows
    /\ lastOp.id < next_wid
    /\ Len(state.focus.focus_history) = MaxWid - 2
    /\ Cardinality(DOMAIN state.windows) = MaxWid - 1

\* C33: the focused window, if any, carries the FOCUSED flag and no other
\* window carries it.
C33_FocusedFlagMatchesFocus ==
    \A w \in DOMAIN state.windows :
        HasFlag(state, w, "FOCUSED") <=> state.focus.focused_window = w

\* C34: a focused window is on the focused workspace.
C34_FocusedWindowOnFocusedWorkspace ==
    (state.focus.focused_window # None /\ state.focus.focused_window \in DOMAIN state.windows)
        => state.windows[state.focus.focused_window].workspace = state.focus.focused_workspace

C36_GrabbedWindowExists ==
    Grabbing(state) => state.grabbed_window.window_id \in DOMAIN state.windows

\* C37: every id in the shown-scratchpad set is in the scratchpad list and
\* is an existing window.
C37_ShownScratchpadIsScratchpad ==
    \A id \in Range(scratchpad_visible) :
        /\ Contains(state.scratchpad, id)
        /\ id \in DOMAIN state.windows

\* C38: a window that has a workspace carries FLOATING if and only if it is
\* in that workspace's floating_windows, and lacks it if and only if it is in
\* its tiled_windows.
C38_FloatingFlagMatchesList ==
    \A w \in DOMAIN state.windows :
        LET ws == state.windows[w].workspace
        IN (ws # None /\ ws \in DOMAIN state.workspaces)
             => /\ HasFlag(state, w, "FLOATING") <=> Contains(state.workspaces[ws].floating_windows, w)
                /\ ~HasFlag(state, w, "FLOATING") <=> Contains(state.workspaces[ws].tiled_windows, w)

\* C39: after a call that relays out the focused workspace, the geometry
\* stored on a tiled window equals the rectangle of the SetWindowGeometry
\* action the call emitted for it.
C39_StoredGeometryMatchesAction ==
    [][\A i \in 1..Len(actions') :
          LET a == actions'[i]
          IN (/\ a.type = "SetWindowGeometry"
              /\ a.id \in DOMAIN state'.windows
              /\ ~HasFlag(state', a.id, "FLOATING"))
               => state'.windows[a.id].geometry = Geometry_new(a.x, a.y, a.w, a.h)]_vars

\* C40: every rectangle calculate_layout produces for a workspace is no
\* wider and no higher than the area passed in, and no size has wrapped
\* around the unsigned 32-bit range (a wrapped size shows as a negative
\* bit pattern).
C40_LayoutStaysInsideArea ==
    \A ws \in DOMAIN state.workspaces :
        LET W == state.workspaces[ws]
            geos == LayoutTree_calculate_layout(W.layout, W.work_area, GapOuter).window_geometries
        IN \A w \in DOMAIN geos :
              /\ geos[w].width >= 0
              /\ geos[w].height >= 0
              /\ ~ULt(W.work_area.width, geos[w].width)
              /\ ~ULt(W.work_area.height, geos[w].height)

====
